---- MODULE Spec2Model ----
(***************************************************************************)
(* A model of the ingestion pipeline, the vector store adapters, the       *)
(* conversation store and the read cache of the multi-model RAG backend    *)
(* (backend/app).                                                          *)
(*                                                                         *)
(* Conventions.                                                            *)
(*  - A vector id is a 63-bit integer; it is written here as its decimal   *)
(*    numeral (a string), because the values exceed the range of the       *)
(*    model checker's integers.  str(int(s)) = s for these numerals.       *)
(*  - A handler is one action.  The inputs a handler cannot control (the   *)
(*    object store, the embedding provider, the vector store, the queue)   *)
(*    are drawn with \E from the outcomes they can produce.                *)
(***************************************************************************)
EXTENDS Integers, Sequences, FiniteSets, TLC

\* ------------------------------------------------------------------ bounds
\* File ids 1..MaxFileId are ever assigned.
MaxFileId == 2
\* Knowledge bases 1..NumKbs exist (all owned by the one user modelled).
NumKbs == 1
\* The chunker returns 1..MaxChunks chunks for a non-empty text.
MaxChunks == 2
\* Chunk ids 1..MaxChunkId are ever assigned by the chunks table.
MaxChunkId == 4
\* add_files / add_files_stream are called with 1..MaxBatch file ids.
MaxBatch == 1
\* At most MaxQueue submitted tasks wait in the queue.
MaxQueue == 1
\* NumSessions requests or tasks run at the same time, each in its own session.
NumSessions == 2
\* The batches of several files hold BatchLen file ids.
BatchLen == 2

FileIds == 1..MaxFileId
SessionIds == 1..NumSessions
\* A session with no transaction open.
NoSession == [pc |-> "idle"]
KbIds == 1..NumKbs
Contents == {"a", "b"}
FileTypes == {"txt", "png"}
\* The extension under which each content is uploaded.
TypeOfContent(md5) == IF md5 = "a" THEN "txt" ELSE "png"
ImageTypes == {"jpeg", "jpg", "png"}

VARIABLES
    \* --- relational store (committed state)
    files,        \* file id -> [md5, ft, chunk_count]   (table files)
    nextFileId,   \* next id of table files
    kb,           \* kb id -> [file_count, chunk_count]  (table knowledge_bases)
    kb_files,     \* kb id -> file id -> number of KnowledgeBaseFile rows
    chunks,       \* set of rows of table chunks
    nextChunkId,  \* next id of table chunks
    \* --- vector store (Milvus-compatible collection): the ids it holds
    vectors,
    \* --- the task queue (Celery broker): the submitted tasks not yet run
    queue,
    \* --- the vector store adapter of this process: [type, seed]; seed is the
    \*     interpreter's string-hash seed (PYTHONHASHSEED, random per process)
    vs,
    \* --- the database sessions of the requests and tasks that run at the same time:
    \*     session id -> what the session has loaded and flushed, not yet committed
    sessions,
    \* --- the rate limiter: the per-user daily counters (Redis) of the current and
    \*     earlier days, the clock's day, and per counter the requests let through
    limits,
    \* --- chat: table conversations (rows [id, updated_at]) and its id sequence
    conversations,
    nextConvId,
    \* --- chat: table messages, conversation id -> committed messages in created_at order
    messages,
    \* --- chat: the streaming request in flight (generate() around chat_stream()),
    \*     or the chat request in its tool-call loop, or the
    \*     chunker in its sliding-window loop
    gen,
    \* --- the read cache (Redis): key -> cached response, or Miss
    cache,
    \* --- the last handler that ran, with what it returned
    last

storeVars == <<files, nextFileId, kb, kb_files, chunks, nextChunkId, vectors>>

chatVars == <<conversations, nextConvId, messages, gen, cache>>

vars == <<files, nextFileId, kb, kb_files, chunks, nextChunkId, vectors, queue, vs,
          sessions, limits, conversations, nextConvId, messages, gen, cache, last>>

\* ------------------------------------------------------------ pure helpers
Max(a, b) == IF a >= b THEN a ELSE b

RECURSIVE SumOver(_, _)
SumOver(f, S) ==
    IF S = {} THEN 0
    ELSE LET x == CHOOSE y \in S : TRUE IN f[x] + SumOver(f, S \ {x})

\* chunk_id_to_vector_id: str(int(sha256(str(chunk_id)).hexdigest()[:16], 16) % 2**63),
\* tabulated for the chunk ids the model can assign.
VectorIdTable ==
    <<"7748076420210162913", "6085311125352486638", "5622533601426856843",
      "5414021058608832454", "8011079644058719275", "7491386211428109751",
      "8719647946811673230", "3198191471355371895", "1826242805484023040",
      "5351644240885712040", "5748892369479747538", "7733195345837784852">>

chunk_id_to_vector_id(chunk_id) == VectorIdTable[chunk_id]

\* The chunk rows of file f in knowledge base k.
ChunksOf(rows, k, f) == {c \in rows : c.kb = k /\ c.file_id = f}

\* count(*) of KnowledgeBaseFile rows of knowledge base k.
LinkCount(links, k) == SumOver(links[k], FileIds)

\* A row of table files that does not exist.
NoFile == [present |-> FALSE, md5 |-> "", ft |-> "", chunk_count |-> 0]

FileExists(fs, f) == f \in FileIds /\ fs[f].present

\* The methods the vector store classes define (ZillizVectorStore and
\* QdrantVectorStore define the same three); a call of any other name raises
\* AttributeError.
VectorStoreMethods == {"ensure_collection", "insert", "search"}

\* What the collaborators can do to one file of a batch:
\*   unreadable  get_file_content returns (None, reason)
\*   empty       the extracted text is empty, or the chunker returns no chunk
\*   vec_fail    get_embeddings raises, returns a wrong count, or insert raises
\*   img_fail    (image files) get_embedding_for_image or the second insert raises
\*   db_fail     a statement of the session raises (the flush of the new link)
\*   ok          everything succeeds
\* n is the number of text chunks the chunker returns.
Outcomes ==
    {[kind |-> "unreadable", n |-> 0], [kind |-> "empty", n |-> 0],
     [kind |-> "db_fail", n |-> 0]}
    \cup {[kind |-> k, n |-> n] : k \in {"ok", "vec_fail", "img_fail"}, n \in 1..MaxChunks}

\* ------------------------------------------------- add_files, per file
\* The state of one add_files / add_files_stream call: the session's view of
\* the tables (flushed, not committed), the vector store, and the call's lists.
TxnStart(d) ==
    [files |-> d.files, links |-> d.kb_files, chunks |-> d.chunks,
     nextChunkId |-> d.nextChunkId, vectors |-> d.vectors,
     added |-> {}, updated |-> <<>>, skipped |-> <<>>, events |-> <<>>,
     raised |-> FALSE]

Skip(fid, reason) == [file_id |-> fid, reason |-> reason]
Event(type, fid) == [type |-> type, file_id |-> fid]

\* The text chunk rows of one file: dense chunk_index from 0, ids from the table's sequence.
NewTextRows(t, k, fid, n) ==
    {[id |-> t.nextChunkId + i, file_id |-> fid, kb |-> k, idx |-> i, src |-> "text"] :
        i \in 0..(n - 1)}

NewImageRow(t, k, fid, n) ==
    [id |-> t.nextChunkId + n, file_id |-> fid, kb |-> k, idx |-> n, src |-> "image"]

\* file.chunk_count after a file was vectorised by add_files: the text chunks, plus one
\* when an image chunk of this file is in added_chunks (it is appended before its
\* embedding is requested).
SyncChunkCount(old, n, isImage, added, fid) ==
    old + n + (IF isImage /\ \E c \in added : c.file_id = fid /\ c.src = "image" THEN 1 ELSE 0)

\* file.chunk_count after a file was vectorised by add_files_stream: extra_image_chunks
\* is 1 only when the image vector was inserted.
StreamChunkCount(old, n, extra_image_chunks) == old + n + extra_image_chunks

\* One iteration of the loop over file_ids.
AddOneFile(t, k, fid, out, stream) ==
    IF t.raised THEN t
    ELSE IF ~FileExists(t.files, fid) THEN
        IF stream THEN [t EXCEPT !.events = Append(@, Event("file_skip", fid))] ELSE t
    ELSE IF t.links[k][fid] > 0 THEN
        IF stream
        THEN [t EXCEPT !.skipped = Append(@, Skip(fid, "already in KB")),
                       !.events = @ \o <<Event("file_start", fid), Event("file_skip", fid)>>]
        ELSE t
    ELSE IF out.kind = "db_fail" THEN
        \* the exception leaves the loop: the handler around it rolls back
        [t EXCEPT !.raised = TRUE,
                  !.events = IF stream THEN Append(@, Event("file_start", fid)) ELSE @]
    ELSE IF out.kind \in {"unreadable", "empty"} THEN
        \* the link is added, flushed, then deleted again
        [t EXCEPT !.skipped = Append(@, Skip(fid, out.kind)),
                  !.events = IF stream
                             THEN @ \o <<Event("file_start", fid), Event("file_skip", fid)>>
                             ELSE @]
    ELSE
        LET rows == NewTextRows(t, k, fid, out.n)
            isImage == t.files[fid].ft \in ImageTypes
            img == NewImageRow(t, k, fid, out.n)
            old == t.files[fid].chunk_count
        IN  IF out.kind = "vec_fail" THEN
                IF stream
                THEN \* except: delete kb_file, record the skip, continue; the chunk rows
                     \* stay in the session
                     [t EXCEPT !.chunks = @ \cup rows,
                               !.added = @ \cup rows,
                               !.nextChunkId = @ + out.n,
                               !.skipped = Append(@, Skip(fid, "vec_fail")),
                               !.events = @ \o <<Event("file_start", fid), Event("file_skip", fid)>>]
                ELSE \* except: raise ValueError, caught by the outer handler
                     [t EXCEPT !.nextChunkId = @ + out.n,
                               !.added = @ \cup rows,
                               !.raised = TRUE]
            ELSE
                LET imgVecOk == isImage /\ out.kind = "ok"
                    allRows == IF isImage THEN rows \cup {img} ELSE rows
                    added2 == t.added \cup allRows
                    cnt == IF stream
                           THEN StreamChunkCount(old, out.n, IF imgVecOk THEN 1 ELSE 0)
                           ELSE SyncChunkCount(old, out.n, isImage, added2, fid)
                IN  [t EXCEPT !.links[k][fid] = 1,
                              !.chunks = @ \cup allRows,
                              !.added = added2,
                              !.nextChunkId = @ + out.n + (IF isImage THEN 1 ELSE 0),
                              !.vectors = @ \cup {chunk_id_to_vector_id(c.id) : c \in rows}
                                            \cup (IF imgVecOk
                                                  THEN {chunk_id_to_vector_id(img.id)}
                                                  ELSE {}),
                              !.files[fid].chunk_count = cnt,
                              !.updated = Append(@, <<fid, old>>),
                              !.events = IF stream
                                         THEN @ \o <<Event("file_start", fid), Event("file_done", fid)>>
                                         ELSE @]

RECURSIVE AddLoop(_, _, _, _, _)
AddLoop(t, k, fids, outs, stream) ==
    IF fids = <<>> THEN t
    ELSE AddLoop(AddOneFile(t, k, Head(fids), Head(outs), stream), k, Tail(fids), Tail(outs), stream)

\* kb.chunk_count after the loop: for each updated file, the file's delta.
RECURSIVE KbChunkCountAfter(_, _, _)
KbChunkCountAfter(cc, updated, fs) ==
    IF updated = <<>> THEN cc
    ELSE KbChunkCountAfter(cc + (fs[Head(updated)[1]].chunk_count - Head(updated)[2]),
                           Tail(updated), fs)

\* ------------------------------------------------------- the handlers
\* A snapshot of the stores: what a handler reads and what it leaves committed.
Cur ==
    [files |-> files, nextFileId |-> nextFileId, kb |-> kb, kb_files |-> kb_files,
     chunks |-> chunks, nextChunkId |-> nextChunkId, vectors |-> vectors]

Install(d) ==
    /\ files' = d.files
    /\ nextFileId' = d.nextFileId
    /\ kb' = d.kb
    /\ kb_files' = d.kb_files
    /\ chunks' = d.chunks
    /\ nextChunkId' = d.nextChunkId
    /\ vectors' = d.vectors

\* KnowledgeBaseService.add_files (stream = FALSE) and add_files_stream (stream = TRUE):
\* after the loop left the transaction t, the counters and the commit, or the rollback.
AddFilesEnd(d, k, t, stream) ==
        IF t.raised
        THEN \* rollback: the tables are as before; the ids drawn from the sequence and
             \* the vectors already inserted are not given back
             [d |-> [d EXCEPT !.nextChunkId = t.nextChunkId, !.vectors = t.vectors],
              ok |-> FALSE, skipped |-> <<>>, linked |-> {}, ids |-> {},
              events |-> IF stream THEN Append(t.events, Event("error", 0)) ELSE <<>>]
        ELSE [d |-> [d EXCEPT !.files = t.files,
                              !.kb_files = t.links,
                              !.chunks = t.chunks,
                              !.nextChunkId = t.nextChunkId,
                              !.vectors = t.vectors,
                              !.kb[k].chunk_count =
                                  KbChunkCountAfter(d.kb[k].chunk_count, t.updated, t.files),
                              !.kb[k].file_count = LinkCount(t.links, k)],
              ok |-> TRUE, skipped |-> t.skipped,
              linked |-> {t.updated[i][1] : i \in 1..Len(t.updated)},
              ids |-> {c.id : c \in t.chunks \ d.chunks},
              events |-> IF stream THEN Append(t.events, Event("done", 0)) ELSE <<>>]

AddFiles(d, k, fids, outs, stream) ==
    AddFilesEnd(d, k, AddLoop(TxnStart(d), k, fids, outs, stream), stream)

\* AsyncSession.delete / execute(delete(...)) of the rows in `gone`.
DeleteRows(rows, gone) == rows \ gone

\* The vector ids remove_file and delete_knowledge_base ask the store to delete.
VectorIdsOf(rows) == {chunk_id_to_vector_id(c.id) : c \in rows}

\* KnowledgeBaseService.remove_file_from_knowledge_base.  vdel = FALSE: the store's
\* delete raises (the error is logged and the rows are deleted all the same).
RemoveFile(d, k, fid, vdel) ==
    IF d.kb_files[k][fid] # 1 \/ ~FileExists(d.files, fid)
    THEN \* ValueError (no link, no file), or MultipleResultsFound
         [d |-> d, ok |-> FALSE, removed |-> {}]
    ELSE LET sel == ChunksOf(d.chunks, k, fid)
             chunk_delta == Cardinality(sel)
         IN  [d |-> [d EXCEPT !.vectors = IF sel # {} /\ vdel THEN @ \ VectorIdsOf(sel) ELSE @,
                              !.chunks = DeleteRows(@, sel),
                              !.kb_files[k][fid] = 0,
                              !.files[fid].chunk_count = Max(0, @ - chunk_delta),
                              !.kb[k].file_count = Max(0, @ - 1),
                              !.kb[k].chunk_count = Max(0, @ - chunk_delta)],
              ok |-> TRUE, removed |-> {c.id : c \in sel}]

\* KnowledgeBaseService.reindex_file_in_knowledge_base: remove_file, then add_files.
\* r is what the removal left: when it raised nothing is added, else the file is added
\* again and the result of add_files is the result.
ReaddFile(d, k, fid, r, out) ==
    IF ~r.ok THEN [d |-> d, ok |-> FALSE, removed_ok |-> FALSE, skipped |-> <<>>]
    ELSE [removed_ok |-> TRUE] @@ AddFiles(r.d, k, <<fid>>, <<out>>, FALSE)

ReindexFile(d, k, fid, vdel, out) == ReaddFile(d, k, fid, RemoveFile(d, k, fid, vdel), out)

\* FileService._overwrite_file: the file's chunk rows and links are deleted, the
\* vectors are to be deleted through vs.delete_by_chunk_ids (any exception is passed),
\* the bytes are replaced and the record is reset.
OverwriteFile(d, fid, ft) ==
    LET sel == {c \in d.chunks : c.file_id = fid}
    IN  [d EXCEPT !.chunks = DeleteRows(@, sel),
                  !.kb_files = [k \in KbIds |-> [@[k] EXCEPT ![fid] = 0]],
                  !.vectors = IF sel # {} /\ "delete_by_chunk_ids" \in VectorStoreMethods
                              THEN @ \ VectorIdsOf(sel)
                              ELSE @,
                  !.files[fid].chunk_count = 0,
                  !.files[fid].ft = ft]

\* The file of this user with the given content hash, or 0.
ExistingByMd5(d, md5) ==
    IF \E f \in FileIds : d.files[f].present /\ d.files[f].md5 = md5
    THEN CHOOSE f \in FileIds : d.files[f].present /\ d.files[f].md5 = md5
    ELSE 0

\* FileService.upload_file.  Returns the stores and the id of the returned record.
UploadFile(d, md5, ft, policy) ==
    LET existing == ExistingByMd5(d, md5)
    IN  IF existing # 0
        THEN IF policy = "overwrite"
             THEN [d |-> OverwriteFile(d, existing, ft), id |-> existing, created |-> FALSE]
             ELSE [d |-> d, id |-> existing, created |-> FALSE]
        ELSE [d |-> [d EXCEPT !.files[d.nextFileId] =
                                  [present |-> TRUE, md5 |-> md5, ft |-> ft, chunk_count |-> 0],
                              !.nextFileId = @ + 1],
              id |-> d.nextFileId, created |-> TRUE]

\* FileService.delete_file: the file's chunk rows, its links and its record.
DeleteFile(d, fid) ==
    [d EXCEPT !.chunks = DeleteRows(@, {c \in d.chunks : c.file_id = fid}),
              !.kb_files = [k \in KbIds |-> [@[k] EXCEPT ![fid] = 0]],
              !.files[fid] = NoFile]

NoResp == [op |-> "none"]

Batches == UNION {[1..n -> FileIds] : n \in 1..MaxBatch}
LongBatches == [1..BatchLen -> FileIds]
OutSeqs(n) == [1..n -> Outcomes]
Policies == {"use_existing", "overwrite"}

\* The handler before this one was a successful add_files that linked exactly this
\* file to this knowledge base.
AfterAdd(l, k, fid) == l.op = "add_files" /\ l.ok /\ l.kb = k /\ l.linked = {fid}

InBounds(d) == d.nextChunkId <= MaxChunkId + 1 /\ d.nextFileId <= MaxFileId + 1

\* POST /files/upload, /files/batch-upload (one file)
Upload(md5, ft, policy) ==
    \E r \in {UploadFile(Cur, md5, ft, policy)} :
        /\ InBounds(r.d)
        /\ Install(r.d)
        /\ last' = [op |-> "upload", md5 |-> md5, policy |-> policy, id |-> r.id,
                    created |-> r.created]
        /\ UNCHANGED <<queue, vs, sessions, limits, chatVars>>

\* DELETE /files/{file_id}
DeleteFileReq(fid) ==
    /\ FileExists(files, fid)
    /\ Install(DeleteFile(Cur, fid))
    /\ last' = [op |-> "delete_file", fid |-> fid]
    /\ UNCHANGED <<queue, vs, sessions, limits, chatVars>>

AddResp(op, k, fids, r) ==
    [op |-> op, kb |-> k, fids |-> fids, ok |-> r.ok, linked |-> r.linked,
     skipped |-> r.skipped, events |-> r.events, pre |-> kb[k]]

\* POST /knowledge-bases/{kb_id}/files
AddFilesReq(k, fids, outs) ==
    \E r \in {AddFiles(Cur, k, fids, outs, FALSE)} :
        /\ InBounds(r.d)
        /\ Install(r.d)
        /\ last' = AddResp("add_files", k, fids, r)
        /\ UNCHANGED <<queue, vs, sessions, limits, chatVars>>

\* POST /knowledge-bases/{kb_id}/files/stream
AddFilesStreamReq(k, fids, outs) ==
    \E r \in {AddFiles(Cur, k, fids, outs, TRUE)} :
        /\ InBounds(r.d)
        /\ Install(r.d)
        /\ last' = AddResp("add_files_stream", k, fids, r)
        /\ UNCHANGED <<queue, vs, sessions, limits, chatVars>>

\* DELETE /knowledge-bases/{kb_id}/files/{file_id}
RemoveFileReq(k, fid, vdel) ==
    \E r \in {RemoveFile(Cur, k, fid, vdel)} :
        /\ Install(r.d)
        /\ last' = [op |-> "remove_file", kb |-> k, fid |-> fid, ok |-> r.ok,
                    vdel |-> vdel, after_add |-> AfterAdd(last, k, fid)]
        /\ UNCHANGED <<queue, vs, sessions, limits, chatVars>>

\* POST /knowledge-bases/{kb_id}/files/{file_id}/reindex
ReindexFileReq(k, fid, vdel, out) ==
    \E r \in {ReindexFile(Cur, k, fid, vdel, out)} :
        /\ InBounds(r.d)
        /\ Install(r.d)
        /\ last' = [op |-> "reindex_file", kb |-> k, fid |-> fid, ok |-> r.ok,
                    removed_ok |-> r.removed_ok]
        /\ UNCHANGED <<queue, vs, sessions, limits, chatVars>>


\* ------------------------------------------- async submit endpoints, worker
\* What _submit_celery_task can do: return the task ("ok"), exceed
\* CELERY_SUBMIT_TIMEOUT ("timeout"), fail to reach the broker ("unavailable": a
\* ConnectionError / OperationalError / name resolution error), or raise anything
\* else ("error").
SubmitOutcomes == {"ok", "timeout", "unavailable", "error"}

AsyncOps == {"add_files_async", "reindex_file_async", "reindex_all_async"}

\* The fallback as the handlers' docstrings describe it: on every failed submit.
SyncFallbackOnAnyFailure(endpoint, submit) == submit \in {"timeout", "unavailable"}

\* Whether the endpoint runs the operation in-process after a failed submit: the
\* three handlers do on an unavailable queue; on a timeout only add-files does (the
\* reindex handlers answer sync = false and run nothing).
SyncFallbackOn(endpoint, submit) ==
    \/ submit = "unavailable"
    \/ submit = "timeout" /\ endpoint = "add_files_async"

\* The outcomes drawn for the files a task or a fallback processes.
TaskOutcomes == {o \in Outcomes : o.n <= 1 /\ o.kind \in {"ok", "unreadable", "vec_fail"}}

NoResult == [none |-> TRUE]
ResultOf(d, k) == [file_count |-> d.kb[k].file_count, chunk_count |-> d.kb[k].chunk_count]

\* The linked file ids of a knowledge base, as the select returns them.
RECURSIVE LinkedFileIds(_, _, _)
LinkedFileIds(links, k, f) ==
    IF f > MaxFileId THEN <<>>
    ELSE (IF links[k][f] > 0 THEN <<f>> ELSE <<>>) \o LinkedFileIds(links, k, f + 1)

\* The loop of the reindex-all task and of the reindex-all fallback: each file is
\* reindexed, an exception of one file is logged and the loop goes on.
\* One pass of the loop: the stores the reindex left, the count of files that did not raise.
Reindexed(acc, r) == [d |-> r.d, reindexed |-> acc.reindexed + (IF r.ok THEN 1 ELSE 0)]

RECURSIVE ReindexLoop(_, _, _, _, _)
ReindexLoop(acc, k, fids, vdel, outs) ==
    IF fids = <<>> THEN acc
    ELSE ReindexLoop(Reindexed(acc, ReindexFile(acc.d, k, Head(fids), vdel, outs[Head(fids)])),
                     k, Tail(fids), vdel, outs)

ReindexAll(d, k, vdel, outs) ==
    ReindexLoop([d |-> d, reindexed |-> 0], k, LinkedFileIds(d.kb_files, k, 1), vdel, outs)

\* The operation of a task or endpoint, run in-process: the stores after it and
\* whether it raised.
\* A task's outcome: the stores the service call left, raised when it failed.
Ran(r) == [d |-> r.d, raised |-> ~r.ok]

RunOperation(d, t, vdel, outs) ==
    IF t.name = "add_files_async"
    THEN Ran(AddFiles(d, t.kb, t.fids, [i \in 1..Len(t.fids) |-> outs[t.fids[i]]], FALSE))
    ELSE IF t.name = "reindex_file_async"
    THEN Ran(ReindexFile(d, t.kb, t.fids[1], vdel, outs[t.fids[1]]))
    ELSE [d |-> ReindexAll(d, t.kb, vdel, outs).d, raised |-> FALSE]

\* The queue after the submit: the task is in it when delay() returned, and may be
\* in it when the wait timed out (the executor thread goes on running delay()).
Enqueue(q, t, submit, landed) ==
    IF submit = "ok" \/ (submit = "timeout" /\ landed) THEN Append(q, t) ELSE q

\* POST .../files/async, .../files/{file_id}/reindex-async, .../reindex-all-async
AsyncReq(endpoint, k, fids, submit, landed, vdel, outs) ==
    LET t == [name |-> endpoint, kb |-> k, fids |-> fids]
        fallback == SyncFallbackOn(endpoint, submit)
    IN  \E r \in {IF fallback THEN RunOperation(Cur, t, vdel, outs)
                             ELSE [d |-> Cur, raised |-> FALSE]} :
        \E raised \in {r.raised \/ submit = "error"} :
        /\ Len(Enqueue(queue, t, submit, landed)) <= MaxQueue
        /\ InBounds(r.d)
        /\ Install(r.d)
        /\ queue' = Enqueue(queue, t, submit, landed)
        /\ last' = [op |-> endpoint, kb |-> k, submit |-> submit, raised |-> raised,
                    task_id |-> IF submit = "ok" THEN 1 ELSE 0,
                    sync |-> fallback /\ ~raised,
                    result |-> IF fallback /\ ~raised THEN ResultOf(r.d, k) ELSE NoResult]
        /\ UNCHANGED <<vs, sessions, limits, chatVars>>

AddFilesAsyncReq(k, fids, submit, landed, outs) ==
    AsyncReq("add_files_async", k, fids, submit, landed, TRUE, outs)

ReindexFileAsyncReq(k, fid, submit, landed, vdel, outs) ==
    AsyncReq("reindex_file_async", k, <<fid>>, submit, landed, vdel, outs)

ReindexAllAsyncReq(k, submit, landed, vdel, outs) ==
    AsyncReq("reindex_all_async", k, <<>>, submit, landed, vdel, outs)

\* The worker takes the oldest task and runs it (kb.add_files, kb.reindex_file,
\* kb.reindex_all), in a session of its own.
RunTask(vdel, outs) ==
    /\ queue # <<>>
    /\ \E r \in {RunOperation(Cur, Head(queue), vdel, outs)} :
           /\ InBounds(r.d)
           /\ Install(r.d)
           /\ last' = [op |-> "task", name |-> Head(queue).name, raised |-> r.raised]
    /\ queue' = Tail(queue)
    /\ UNCHANGED <<vs, sessions, limits, chatVars>>



\* ---------------------------------- requests and tasks running at the same time
\* Each request and each task has a session of its own.  A session reads committed
\* rows and its own flushed rows; the ORM object it loaded keeps the values read
\* until the session commits; the commit writes the attributes the session changed.
Written(loaded, new, committed) == IF new # loaded THEN new ELSE committed

\* The sessions other than s that are in a transaction on the same file.
SameFile(ss, s, fid) == {o \in SessionIds : o # s /\ ss[o].pc # "idle" /\ ss[o].fid = fid}

\* add_files / remove_file_from_knowledge_base start: get_knowledge_base loads the
\* knowledge base row.  `shared` records that a session running at the same time
\* handles the same file.
SessionBegin(s, op, k, fid) ==
    /\ sessions[s].pc = "idle"
    /\ sessions' =
         [o \in SessionIds |->
            IF o = s
            THEN [pc |-> "loaded", op |-> op, kb |-> k, fid |-> fid, kb_row |-> kb[k],
                  file_row |-> NoFile, link_added |-> FALSE,
                  shared |-> SameFile(sessions, s, fid) # {}]
            ELSE IF o \in SameFile(sessions, s, fid)
            THEN [sessions[o] EXCEPT !.shared = TRUE]
            ELSE sessions[o]]
    /\ last' = [op |-> "session_begin", session |-> s]
    /\ UNCHANGED <<storeVars, queue, vs, limits, chatVars>>

\* add_files, the head of the loop body: the file is selected, the link is looked
\* for and, when there is none, added and flushed (not committed).
SessionLink(s) ==
    /\ sessions[s].pc = "loaded"
    /\ sessions[s].op = "add_files"
    /\ sessions' = [sessions EXCEPT
                      ![s].pc = "linked",
                      ![s].file_row = files[sessions[s].fid],
                      ![s].link_added = FileExists(files, sessions[s].fid)
                                          /\ kb_files[sessions[s].kb][sessions[s].fid] = 0]
    /\ last' = [op |-> "session_link", session |-> s]
    /\ UNCHANGED <<storeVars, queue, vs, limits, chatVars>>

\* The stores as the session of an add_files call sees them: the rows it loaded, and
\* no link of its file when it found none.
SeenByAdd(d, ses) ==
    IF ses.link_added
    THEN [d EXCEPT !.kb[ses.kb] = ses.kb_row,
                   !.kb_files[ses.kb][ses.fid] = 0,
                   !.files[ses.fid] = ses.file_row]
    ELSE [d EXCEPT !.kb[ses.kb] = ses.kb_row]

\* The link rows after the commit of an add_files session: the committed ones and its own.
LinksAfter(d, ses, r) ==
    IF ses.link_added
    THEN [d.kb_files EXCEPT ![ses.kb][ses.fid] = @ + r.d.kb_files[ses.kb][ses.fid]]
    ELSE d.kb_files

\* The commit of an add_files session whose call returned r: its rows are inserted,
\* the counters it changed are written with the values it computed.
AddCommitted(d, ses, r, links) ==
    IF ~r.ok
    THEN [d EXCEPT !.nextChunkId = r.d.nextChunkId, !.vectors = r.d.vectors]
    ELSE [d EXCEPT
            !.kb_files = links,
            !.chunks = r.d.chunks,
            !.nextChunkId = r.d.nextChunkId,
            !.vectors = r.d.vectors,
            !.files[ses.fid] = IF ses.fid \in r.linked THEN r.d.files[ses.fid] ELSE @,
            !.kb[ses.kb] =
                [file_count |-> Written(ses.kb_row.file_count, LinkCount(links, ses.kb),
                                        @.file_count),
                 chunk_count |-> Written(ses.kb_row.chunk_count, r.d.kb[ses.kb].chunk_count,
                                         @.chunk_count)]]

\* The rest of add_files in the session: the file is read, chunked and vectorised,
\* the counters are computed from the loaded row, the transaction commits.
SessionAdd(d, ses, out) ==
    [d |-> AddCommitted(d, ses,
                        AddFiles(SeenByAdd(d, ses), ses.kb,
                                 IF ses.link_added THEN <<ses.fid>> ELSE <<>>,
                                 IF ses.link_added THEN <<out>> ELSE <<>>, FALSE),
                        LinksAfter(d, ses,
                                   AddFiles(SeenByAdd(d, ses), ses.kb,
                                            IF ses.link_added THEN <<ses.fid>> ELSE <<>>,
                                            IF ses.link_added THEN <<out>> ELSE <<>>, FALSE))),
     ok |-> AddFiles(SeenByAdd(d, ses), ses.kb,
                     IF ses.link_added THEN <<ses.fid>> ELSE <<>>,
                     IF ses.link_added THEN <<out>> ELSE <<>>, FALSE).ok]

\* The commit of a remove_file session.
RemoveCommitted(d, ses, r) ==
    IF ~r.ok THEN d
    ELSE [r.d EXCEPT
            !.kb[ses.kb] =
                [file_count |-> Written(ses.kb_row.file_count, @.file_count,
                                        d.kb[ses.kb].file_count),
                 chunk_count |-> Written(ses.kb_row.chunk_count, @.chunk_count,
                                         d.kb[ses.kb].chunk_count)]]

\* The rest of remove_file_from_knowledge_base in the session, to its commit.
SessionRemove(d, ses, vdel) ==
    [d |-> RemoveCommitted(d, ses,
                           RemoveFile([d EXCEPT !.kb[ses.kb] = ses.kb_row],
                                      ses.kb, ses.fid, vdel)),
     ok |-> RemoveFile([d EXCEPT !.kb[ses.kb] = ses.kb_row], ses.kb, ses.fid, vdel).ok]

\* The session runs to its commit (or its rollback) and ends.
SessionCommit(s, out, vdel) ==
    /\ \/ sessions[s].pc = "linked"
       \/ sessions[s].pc = "loaded" /\ sessions[s].op = "remove_file"
    /\ \E r \in {IF sessions[s].op = "add_files"
                  THEN SessionAdd(Cur, sessions[s], out)
                  ELSE SessionRemove(Cur, sessions[s], vdel)} :
          /\ InBounds(r.d)
          /\ Install(r.d)
          /\ last' = [op |-> "session_commit", session |-> s, request |-> sessions[s].op,
                      kb |-> sessions[s].kb, fid |-> sessions[s].fid,
                      shared |-> sessions[s].shared, ok |-> r.ok]
    /\ sessions' = [sessions EXCEPT ![s] = NoSession]
    /\ UNCHANGED <<queue, vs, limits, chatVars>>


\* ------------------------------------------------- the vector store adapters
\* Chunk ids 1..MaxVsChunkId are handed to the adapters.
MaxVsChunkId == 3
VsChunkIds == 1..MaxVsChunkId
AdapterTypes == {"zilliz", "qdrant"}
\* The interpreter's string-hash seeds tabulated.
HashSeeds == {0, 1}

\* str(n) and int(s) on the chunk ids.
DecimalTable == <<"1", "2", "3", "4", "5", "6", "7", "8", "9", "10", "11", "12">>
PyStr(n) == DecimalTable[n]
PyInt(s) == CHOOSE n \in 1..Len(DecimalTable) : DecimalTable[n] = s

\* hash(s) % (2**63) of CPython 3.11 for the strings "1", "2", "3", by PYTHONHASHSEED.
PyHashTable ==
    <<  <<"2359514021181842005", "1450935647650615885", "2972644568903759190">>,
        <<"5714318931971058271", "5754080878075831670", "5287154123826123282">>  >>
PyHashMod63(seed, s) == PyHashTable[seed + 1][PyInt(s)]

\* The point id under which insert() stores the vector of the chunk whose id string
\* is sid: ZillizVectorStore.insert derives it with chunk_id_to_vector_id,
\* QdrantVectorStore.insert with the interpreter's hash of the string.
StoredId(v, sid) ==
    IF v.type = "zilliz"
    THEN chunk_id_to_vector_id(PyInt(sid))
    ELSE PyHashMod63(v.seed, sid)

\* The attributes of the adapter object that the callers read.
AdapterAttrs(type) ==
    IF type = "zilliz" THEN {"client", "_client", "_collection"} ELSE {"client", "_client"}

\* vector_store.insert(ids=[str(c.id) for c in chunks], ...)
VsInsert(ids) ==
    LET stored == {StoredId(vs, PyStr(c)) : c \in ids}
    IN  /\ vectors' = vectors \cup stored
        /\ last' = [op |-> "vs_insert", ids |-> ids, stored |-> stored]
        /\ UNCHANGED <<files, nextFileId, kb, kb_files, chunks, nextChunkId, queue, vs, sessions, limits, chatVars>>

\* The deletion block of remove_file and delete_knowledge_base for the chunks `ids`:
\* client.delete(collection_name=vector_store._collection, ids=[int(chunk_id_to_vector_id(c.id)) ...])
\* inside try / except Exception (logged).
VsDeleteFor(ids) ==
    /\ vectors' = IF "_collection" \in AdapterAttrs(vs.type)
                  THEN vectors \ {chunk_id_to_vector_id(c) : c \in ids}
                  ELSE vectors
    /\ last' = [op |-> "vs_delete", ids |-> ids]
    /\ UNCHANGED <<files, nextFileId, kb, kb_files, chunks, nextChunkId, queue, vs, sessions, limits, chatVars>>

\* The process restarts: the module-level client is built anew, the interpreter
\* draws a new hash seed; the collection keeps its points.
Restart(seed) ==
    /\ vs' = [vs EXCEPT !.seed = seed]
    /\ last' = [op |-> "restart"]
    /\ UNCHANGED <<storeVars, queue, sessions, limits, chatVars>>


\* ------------------------------------------------------ chat and the read cache
\* settings.CHAT_HISTORY_MAX_COUNT
CHAT_HISTORY_MAX_COUNT == 100
\* Conversation ids 1..MaxConvs are ever assigned where the history limit is exercised.
MaxConvs == 102
\* Conversation ids 1..MaxChatConvs are the ones requests address by id.
MaxChatConvs == 1
\* The model streams at most MaxTokens deltas per answer.
MaxTokens == 2
\* A conversation holds at most MaxMsgs messages.
MaxMsgs == 4

ChatConvIds == 1..MaxChatConvs

\* The only user modelled.
TheUser == "u1"

\* A key the cache does not hold.
Miss == [hit |-> FALSE]

\* cache_service.key_conv_detail, key_conv_list, prefix_user_conv_list
key_conv_detail(conv_id) == <<"conv:detail", conv_id>>
key_conv_list(user_id, page, page_size) == <<"conv:list:user", user_id, page, page_size>>
HasPrefixConvList(key, user_id) == key[1] = "conv:list:user" /\ key[2] = user_id

\* The keys the requests of the model read: each addressed conversation's detail,
\* and the list with the endpoint's default page and page size.
ListKey == key_conv_list(TheUser, 1, 20)
CacheKeys == {key_conv_detail(c) : c \in ChatConvIds} \cup {ListKey}

\* cache_service.get / set / delete / delete_by_prefix
CacheGet(ch, key) == ch[key]
CacheSet(ch, key, value) == [ch EXCEPT ![key] = [hit |-> TRUE, value |-> value]]
CacheDelete(ch, key) == [ch EXCEPT ![key] = Miss]
CacheDeleteConvLists(ch, user_id) ==
    [k \in DOMAIN ch |-> IF HasPrefixConvList(k, user_id) THEN Miss ELSE ch[k]]

ConvExists(cs, id) == \E c \in cs : c.id = id

\* A message row: role and content, the content as the sequence of the pieces joined.
Msg(role, content) == [role |-> role, content |-> content]
UserMsg == Msg("user", <<"q">>)
DeltaTable == <<"t1", "t2", "t3">>
Apology == "sorry"

\* A new Conversation row: updated_at is the server's now() at insert.
NewConv(id) == [id |-> id, updated_at |-> id]

InsertAt(seq, pos, m) == SubSeq(seq, 1, pos) \o <<m>> \o SubSeq(seq, pos + 1, Len(seq))

\* POST /chat/completions: ChatService.chat.  c = 0: no conversation_id (a new
\* conversation); llm_ok = FALSE: the answer step raises and the fallback text is stored.
ChatReq(c, llm_ok, maxConv) ==
    LET answer == Msg("assistant", IF llm_ok THEN <<"answer">> ELSE <<Apology>>)
    IN  /\ IF c = 0
           THEN /\ nextConvId <= maxConv
                /\ conversations' = conversations \cup {NewConv(nextConvId)}
                /\ nextConvId' = nextConvId + 1
                /\ messages' = Append(messages, <<UserMsg, answer>>)
                /\ last' = [op |-> "chat", conv |-> nextConvId, status |-> 200]
           ELSE IF ConvExists(conversations, c)
           THEN /\ Len(messages[c]) + 2 <= MaxMsgs
                /\ messages' = [messages EXCEPT ![c] = @ \o <<UserMsg, answer>>]
                /\ last' = [op |-> "chat", conv |-> c, status |-> 200]
                /\ UNCHANGED <<conversations, nextConvId>>
           ELSE /\ last' = [op |-> "chat", conv |-> c, status |-> 500]
                /\ UNCHANGED <<conversations, nextConvId, messages>>
        /\ UNCHANGED <<storeVars, queue, vs, sessions, limits, gen, cache>>

\* GET /chat/conversations/{conv_id}: the cache is read first; on a miss the
\* conversation and its messages are read and cached.
GetConversationReq(c) ==
    LET cached == CacheGet(cache, key_conv_detail(c))
    IN  /\ IF cached.hit
           THEN /\ last' = [op |-> "get_conversation", conv |-> c, status |-> 200,
                            messages |-> cached.value]
                /\ UNCHANGED cache
           ELSE IF ConvExists(conversations, c)
           THEN /\ cache' = CacheSet(cache, key_conv_detail(c), messages[c])
                /\ last' = [op |-> "get_conversation", conv |-> c, status |-> 200,
                            messages |-> messages[c]]
           ELSE /\ last' = [op |-> "get_conversation", conv |-> c, status |-> 404,
                            messages |-> <<>>]
                /\ UNCHANGED cache
        /\ UNCHANGED <<storeVars, queue, vs, sessions, limits, conversations, nextConvId, messages, gen>>

\* AsyncSession.delete(row): a coroutine; the rows are marked for deletion only when
\* it is awaited.
SessionDelete(awaited, rows, gone) == IF awaited THEN rows \ gone ELSE rows

\* The `howMany` conversations with the oldest updated_at.
RECURSIVE Oldest(_, _)
Oldest(cs, howMany) ==
    IF howMany <= 0 \/ cs = {} THEN {}
    ELSE LET o == CHOOSE c \in cs : \A d \in cs : c.updated_at <= d.updated_at
         IN  {o} \cup Oldest(cs \ {o}, howMany - 1)

\* ChatService.get_conversations: the count, the eviction above the limit, the page.
GetConversations(cs) ==
    LET total == Cardinality(cs)
        over == total > CHAT_HISTORY_MAX_COUNT
        oldest_convs == IF over THEN Oldest(cs, total - CHAT_HISTORY_MAX_COUNT) ELSE {}
        kept == SessionDelete(FALSE, cs, oldest_convs)
        newest == IF kept = {} THEN 0
                  ELSE (CHOOSE c \in kept : \A d \in kept : d.updated_at <= c.updated_at).id
    IN  [conversations |-> kept,
         evicting |-> oldest_convs,
         response |-> [total |-> IF over THEN CHAT_HISTORY_MAX_COUNT ELSE total,
                       first |-> newest]]

\* GET /chat/conversations: the cached page, or the service's answer, then cached.
GetConversationsReq ==
    LET cached == CacheGet(cache, ListKey)
        r == GetConversations(conversations)
    IN  /\ IF cached.hit
           THEN /\ last' = [op |-> "get_conversations", evicted |-> FALSE,
                            response |-> cached.value]
                /\ UNCHANGED <<conversations, messages, cache>>
           ELSE /\ conversations' = r.conversations
                /\ messages' = [c \in DOMAIN messages |->
                                   IF ConvExists(r.conversations, c) THEN messages[c] ELSE <<>>]
                /\ cache' = CacheSet(cache, ListKey, r.response)
                /\ last' = [op |-> "get_conversations", evicted |-> r.evicting # {},
                            response |-> r.response]
        /\ UNCHANGED <<storeVars, queue, vs, sessions, limits, nextConvId, gen>>

\* DELETE /chat/conversations/{conv_id}: the row and (cascade) its messages, then
\* the detail key and the user's list keys.
DeleteConversationReq(c) ==
    /\ IF ConvExists(conversations, c)
       THEN /\ conversations' = {x \in conversations : x.id # c}
            /\ messages' = [messages EXCEPT ![c] = <<>>]
            /\ cache' = CacheDeleteConvLists(CacheDelete(cache, key_conv_detail(c)), TheUser)
            /\ last' = [op |-> "delete_conversation", conv |-> c, status |-> 204]
       ELSE /\ last' = [op |-> "delete_conversation", conv |-> c, status |-> 500]
            /\ UNCHANGED <<conversations, messages, cache>>
    /\ UNCHANGED <<storeVars, queue, vs, sessions, limits, nextConvId, gen>>

\* A cached value reaches its TTL (CACHE_TTL_CONV seconds after it was set).
CacheExpire(key) ==
    /\ cache[key].hit
    /\ cache' = CacheDelete(cache, key)
    /\ last' = [op |-> "expire"]
    /\ UNCHANGED <<storeVars, queue, vs, sessions, limits, conversations, nextConvId, messages, gen>>

\* ------------------------------------------ POST /chat/completions/stream
\* No streaming request in flight.
NoGen == [pc |-> "idle"]

\* A response writer that writes every event twice.
ForwardedTwice(g, event) == IF g.disconnected THEN g.sent ELSE g.sent \o <<event, event>>

\* generate()'s loop body for one event of chat_stream: a disconnected client breaks
\* the loop (the event is dropped), otherwise the event is written to the response.
Forwarded(g, event) == IF g.disconnected THEN g.sent ELSE Append(g.sent, event)

\* The request starts: chat_stream gets or creates the conversation (committed) and
\* flushes the user message; a missing conversation ends the stream with an error event.
StreamOpen(c, maxConv) ==
    /\ gen.pc \in {"idle", "finished", "abandoned"}
    /\ IF c = 0
       THEN /\ nextConvId <= maxConv
            /\ conversations' = conversations \cup {NewConv(nextConvId)}
            /\ nextConvId' = nextConvId + 1
            /\ messages' = Append(messages, <<>>)
            /\ gen' = [pc |-> "streaming", conv |-> nextConvId, user_pos |-> 0,
                       full_content |-> <<>>, sent |-> <<>>, disconnected |-> FALSE]
       ELSE IF ConvExists(conversations, c)
       THEN /\ Len(messages[c]) + 2 <= MaxMsgs
            /\ gen' = [pc |-> "streaming", conv |-> c, user_pos |-> Len(messages[c]),
                       full_content |-> <<>>, sent |-> <<>>, disconnected |-> FALSE]
            /\ UNCHANGED <<conversations, nextConvId, messages>>
       ELSE /\ gen' = [pc |-> "finished", conv |-> c, user_pos |-> 0,
                       full_content |-> <<>>, sent |-> <<"error", "[DONE]">>,
                       disconnected |-> FALSE]
            /\ UNCHANGED <<conversations, nextConvId, messages>>
    /\ last' = [op |-> "stream_open", conv |-> c]
    /\ UNCHANGED <<storeVars, queue, vs, sessions, limits, cache>>

\* The generator is closed at a yield inside the token loop: nothing after the loop
\* runs.  The flushed user message is committed or rolled back by the session's owner.
Abandon(g, content, user_kept) ==
    /\ gen' = [g EXCEPT !.pc = "abandoned", !.full_content = content]
    /\ messages' = IF user_kept /\ ConvExists(conversations, g.conv)
                   THEN [messages EXCEPT ![g.conv] = InsertAt(@, g.user_pos, UserMsg)]
                   ELSE messages

\* The model yields a delta: it is appended to full_content and yielded as a token
\* event; generate() writes it out, or breaks when the client is gone.
StreamDelta(user_kept) ==
    /\ gen.pc = "streaming"
    /\ Len(gen.full_content) < MaxTokens
    /\ LET content == Append(gen.full_content, DeltaTable[Len(gen.full_content) + 1])
       IN  IF gen.disconnected
           THEN Abandon(gen, content, user_kept)
           ELSE /\ gen' = [gen EXCEPT !.full_content = content,
                                      !.sent = Forwarded(gen, "token")]
                /\ UNCHANGED messages
    /\ last' = [op |-> "stream_delta"]
    /\ UNCHANGED <<storeVars, queue, vs, sessions, limits, conversations, nextConvId, cache>>

\* The model's stream raises: the apology is appended and yielded as a token event,
\* and the token loop is over.
StreamLlmFail(user_kept) ==
    /\ gen.pc = "streaming"
    /\ Len(gen.full_content) < MaxTokens
    /\ LET content == Append(gen.full_content, Apology)
       IN  IF gen.disconnected
           THEN Abandon(gen, content, user_kept)
           ELSE /\ gen' = [gen EXCEPT !.pc = "llm_done",
                                      !.full_content = content,
                                      !.sent = Forwarded(gen, "token")]
                /\ UNCHANGED messages
    /\ last' = [op |-> "stream_llm_fail"]
    /\ UNCHANGED <<storeVars, queue, vs, sessions, limits, conversations, nextConvId, cache>>

\* The token loop is over: the assistant message is added and committed with the user
\* message, the done event is yielded; generate() writes it and [DONE] to a client
\* still connected.  A conversation deleted meanwhile fails the commit: an error event.
StreamFinish ==
    /\ gen.pc \in {"streaming", "llm_done"}
    /\ IF ConvExists(conversations, gen.conv)
       THEN /\ messages' = [messages EXCEPT ![gen.conv] =
                               Append(InsertAt(@, gen.user_pos, UserMsg),
                                      Msg("assistant", gen.full_content))]
            /\ gen' = [gen EXCEPT !.pc = "finished",
                                  !.sent = IF gen.disconnected THEN @
                                           ELSE @ \o <<"done", "[DONE]">>]
            /\ last' = [op |-> "stream_finish",
                        event |-> [type |-> "done", conversation_id |-> gen.conv]]
       ELSE /\ gen' = [gen EXCEPT !.pc = "finished", !.sent = Forwarded(gen, "error")]
            /\ last' = [op |-> "stream_finish", event |-> [type |-> "error"]]
            /\ UNCHANGED messages
    /\ UNCHANGED <<storeVars, queue, vs, sessions, limits, conversations, nextConvId, cache>>

\* The client goes away while the response is streaming.
ClientDisconnect ==
    /\ gen.pc \in {"streaming", "llm_done"}
    /\ ~gen.disconnected
    /\ gen' = [gen EXCEPT !.disconnected = TRUE]
    /\ last' = [op |-> "disconnect"]
    /\ UNCHANGED <<storeVars, queue, vs, sessions, limits, conversations, nextConvId, messages, cache>>

\* --------------------------------------------------- retrieval: the rerank step
\* _rag_context is called with top_k = 10.
TOP_K == 10
\* The RRF stage hands 1..MaxCandidates candidate chunks to the rerank step.
MaxCandidates == 2
\* The rerank API answers with at most MaxRerankItems items.
MaxRerankItems == 3
\* Relevance scores, in tenths (0.0, 0.5, 0.9).
RelevanceScores == {0, 5, 9}
HalfScore == 5

Min(a, b) == IF a <= b THEN a ELSE b

\* seq[:n]
Take(seq, n) == SubSeq(seq, 1, Min(n, Len(seq)))

\* candidate_chunks: the chunks sorted by RRF score, highest first.
CandidateChunks(n) == [i \in 1..n |-> [chunk |-> i, rrf_score |-> n - i + 1]]

\* What the rerank API can answer: a results list (any indices, any scores, in any
\* order), a body without output.results, or an HTTP / transport error.
RerankItems ==
    UNION {[1..n -> [index : 0..MaxCandidates, relevance_score : RelevanceScores]] :
              n \in 0..MaxRerankItems}
ApiResponses ==
    {[status |-> "ok", results |-> r] : r \in RerankItems}
        \cup {[status |-> "bad_format"], [status |-> "error"]}

\* rerank_service.rerank on n documents: the API's items as they come, or the
\* original order with score 0.5 when the call fails or the body is malformed.
rerank(n, api) ==
    IF n = 0 THEN <<>>
    ELSE IF api.status = "ok" THEN api.results
    ELSE [i \in 1..n |-> [index |-> i - 1, relevance_score |-> HalfScore]]

\* The loop over the reranked items: an item whose index is a candidate's is
\* appended with the item's score, in the order of the items.
RECURSIVE FromReranked(_, _)
FromReranked(reranked, candidates) ==
    IF reranked = <<>> THEN <<>>
    ELSE (IF Head(reranked).index < Len(candidates)
          THEN <<[chunk |-> candidates[Head(reranked).index + 1].chunk,
                  relevance_score |-> Head(reranked).relevance_score,
                  rrf_score |-> candidates[Head(reranked).index + 1].rrf_score]>>
          ELSE <<>>)
         \o FromReranked(Tail(reranked), candidates)

\* The first top_k candidates with the score 0.5.
RrfOrder(candidates) ==
    [i \in 1..Len(Take(candidates, TOP_K)) |->
        [chunk |-> candidates[i].chunk, relevance_score |-> HalfScore,
         rrf_score |-> candidates[i].rrf_score]]

OrRrfOrder(final_chunks, candidates) ==
    IF final_chunks = <<>> THEN RrfOrder(candidates) ELSE final_chunks

\* selected_chunks of _rag_context.
SelectedChunks(candidates, use_rerank, api) ==
    Take(IF use_rerank
         THEN OrRrfOrder(FromReranked(rerank(Len(candidates), api), candidates), candidates)
         ELSE RrfOrder(candidates),
         TOP_K)

\* One retrieval: the rerank step of ChatService._rag_context on n candidates.
RagContextReq(n, use_rerank, api) ==
    /\ last' = [op |-> "rag_context", use_rerank |-> use_rerank,
                selected |-> SelectedChunks(CandidateChunks(n), use_rerank, api)]
    /\ UNCHANGED <<storeVars, queue, vs, sessions, limits, chatVars>>

\* ------------------------------------------------------------- the chunker
\* KnowledgeBaseService._chunk_text on lengths.  A text is the sequence of its
\* sentences (as the sentence pattern splits it); a sentence is the sequence of the
\* lengths of its sub-sentences (as the comma / semicolon pattern splits it), one
\* separator character between two of them.  A chunk is the sequence of the lengths
\* of the pieces that ' '.join joins.
\* A text has 1..MaxSentences sentences.
MaxSentences == 3
\* A sentence has 1..MaxSubs sub-sentences.
MaxSubs == 3
SubLengths == {1, 3, 7}
ChunkSizes == {4}
Overlaps == {0, 2}
\* max_expand_ratio in tenths (1.0, 1.5).
ExpandRatios == {10, 15}

RECURSIVE SumSeq(_)
SumSeq(q) == IF q = <<>> THEN 0 ELSE Head(q) + SumSeq(Tail(q))

\* len(sentence)
SentenceLength(subs) == SumSeq(subs) + (Len(subs) - 1)
\* len(' '.join(pieces))
JoinedLength(pieces) == SumSeq(pieces) + (Len(pieces) - 1)

Sentences == UNION {[1..n -> SubLengths] : n \in 1..MaxSubs}
Texts == UNION {[1..n -> Sentences] : n \in 1..MaxSentences}

\* int(chunk_size * max_expand_ratio)
MaxChunkSize(chunk_size, ratio) == (chunk_size * ratio) \div 10

\* The state of the merge loop.
MergeStart == [chunks |-> <<>>, current_chunk |-> <<>>, current_length |-> 0]

\* chunks.append(' '.join(current_chunk)) when current_chunk is not empty.
Flushed(m) == IF m.current_chunk = <<>> THEN m.chunks ELSE Append(m.chunks, m.current_chunk)

\* The loop over the sub-sentences of a sentence longer than max_chunk_size.
RECURSIVE SubLoop(_, _, _)
SubLoop(m, subs, max) ==
    IF subs = <<>> THEN m
    ELSE SubLoop(
           IF m.current_length + Head(subs) <= max
           THEN [m EXCEPT !.current_chunk = Append(@, Head(subs)),
                          !.current_length = @ + Head(subs) + 1]
           ELSE IF Head(subs) > max
           THEN [chunks |-> Append(Flushed(m), <<Head(subs)>>),
                 current_chunk |-> <<>>, current_length |-> 0]
           ELSE [chunks |-> Flushed(m),
                 current_chunk |-> <<Head(subs)>>, current_length |-> Head(subs)],
           Tail(subs), max)

\* The overlap sentences: from the end of current_chunk while they fit in `overlap`.
RECURSIVE OverlapLoop(_, _, _, _)
OverlapLoop(current_chunk, j, ov, overlap) ==
    IF j < 1 \/ ov.overlap_length + current_chunk[j] > overlap THEN ov
    ELSE OverlapLoop(current_chunk, j - 1,
                     [overlap_sentences |-> <<current_chunk[j]>> \o ov.overlap_sentences,
                      overlap_length |-> ov.overlap_length + current_chunk[j] + 1],
                     overlap)

OverlapOf(current_chunk, overlap) ==
    IF Len(current_chunk) > 1
    THEN OverlapLoop(current_chunk, Len(current_chunk),
                     [overlap_sentences |-> <<>>, overlap_length |-> 0], overlap)
    ELSE [overlap_sentences |-> <<>>, overlap_length |-> 0]

\* The new chunk seeded with the overlap sentences.
Seeded(m, ov, sentence_length) ==
    [chunks |-> Flushed(m),
     current_chunk |-> Append(ov.overlap_sentences, sentence_length),
     current_length |-> ov.overlap_length + sentence_length + Len(ov.overlap_sentences)]

\* One sentence of the merge loop.
MergeSentence(m, subs, sentence_length, new_length, chunk_size, overlap, max) ==
    IF sentence_length > max
    THEN SubLoop([chunks |-> Flushed(m), current_chunk |-> <<>>, current_length |-> 0],
                 subs, max)
    ELSE IF new_length <= chunk_size \/ new_length <= max
    THEN [m EXCEPT !.current_chunk = Append(@, sentence_length), !.current_length = new_length]
    ELSE Seeded(m, OverlapOf(m.current_chunk, overlap), sentence_length)

RECURSIVE MergeLoop(_, _, _, _, _)
MergeLoop(m, sentences, chunk_size, overlap, max) ==
    IF sentences = <<>> THEN m
    ELSE MergeLoop(MergeSentence(m, Head(sentences), SentenceLength(Head(sentences)),
                                 m.current_length + SentenceLength(Head(sentences))
                                    + (IF m.current_chunk # <<>> THEN 1 ELSE 0),
                                 chunk_size, overlap, max),
                   Tail(sentences), chunk_size, overlap, max)

ChunkText(text, chunk_size, overlap, max_expand_ratio) ==
    IF text = <<>> \/ chunk_size <= 0 THEN <<>>
    ELSE Flushed(MergeLoop(MergeStart, text, chunk_size, overlap,
                           MaxChunkSize(chunk_size, max_expand_ratio)))

\* The arguments of one call of the chunker.
ChunkTextCalls ==
    {[op |-> "chunk_text_call", text |-> text, chunk_size |-> chunk_size,
      overlap |-> overlap, max_expand_ratio |-> max_expand_ratio] :
        text \in Texts, chunk_size \in ChunkSizes, overlap \in Overlaps,
        max_expand_ratio \in ExpandRatios}

\* The call returns.
ChunkTextReq ==
    /\ last.op = "chunk_text_call"
    /\ last' = [op |-> "chunk_text",
                max_chunk_size |-> MaxChunkSize(last.chunk_size, last.max_expand_ratio),
                chunks |-> ChunkText(last.text, last.chunk_size, last.overlap,
                                     last.max_expand_ratio)]
    /\ UNCHANGED <<storeVars, queue, vs, sessions, limits, chatVars>>


\* ------------------------------------- the chunker's fixed-size fallback
\* _chunk_text on a text in which the sentence pattern finds no sentence and that
\* is one paragraph (a text of sentence terminators only): the text is cut by a
\* sliding window.  The text is given by its length, a chunk text[start:end] by
\* <<start, end>>.
MaxTextLen == 4
\* chunk_size is 1..MaxChunkParam, overlap 0..MaxChunkParam (KnowledgeBaseCreate
\* takes any integers; _get_chunk_params hands them on as stored).
MaxChunkParam == 3
\* The loop is followed for at most MaxWindowSteps iterations; a call that returns
\* takes at most MaxTextLen of them.
MaxWindowSteps == MaxTextLen + 1

WindowCalls ==
    [op : {"window_call"}, len : 1..MaxTextLen, chunk_size : 1..MaxChunkParam,
     overlap : 0..MaxChunkParam]

\* The call enters the loop: chunks = [], start = 0.
WindowOpen ==
    /\ last.op = "window_call"
    /\ gen.pc = "idle"
    /\ gen' = [pc |-> "window", len |-> last.len, chunk_size |-> last.chunk_size,
               overlap |-> last.overlap, start |-> 0, chunks |-> <<>>]
    /\ last' = [op |-> "window_open"]
    /\ UNCHANGED <<storeVars, queue, vs, sessions, limits, conversations, nextConvId,
                   messages, cache>>

\* One iteration of `while start < len(text)`: end = start + chunk_size, the chunk
\* is appended, start = end - overlap; the loop is left (and the chunks returned)
\* when start >= len(text).
WindowStep ==
    /\ gen.pc = "window"
    /\ gen.start < gen.len
    /\ Len(gen.chunks) < MaxWindowSteps
    /\ LET end == gen.start + gen.chunk_size
           cut == Append(gen.chunks, <<gen.start, end>>)
           start == end - gen.overlap
       IN  IF start >= gen.len
           THEN /\ gen' = NoGen
                /\ last' = [op |-> "window_chunks", len |-> gen.len,
                            chunk_size |-> gen.chunk_size, overlap |-> gen.overlap,
                            chunks |-> cut]
           ELSE /\ gen' = [gen EXCEPT !.start = start, !.chunks = cut]
                /\ last' = [op |-> "window_step"]
    /\ UNCHANGED <<storeVars, queue, vs, sessions, limits, conversations, nextConvId,
                   messages, cache>>

\* ------------------------------------------------- RRF fusion (_rag_context, steps 1 and 2)
\* settings.RRF_K
RRF_K == 60
\* The chunks 1..MaxHitChunks of the knowledge base can be hit by a search.
MaxHitChunks == 3
HitChunkIds == 1..MaxHitChunks

RECURSIVE RankProduct(_)
RankProduct(n) == IF n = 0 THEN 1 ELSE (RRF_K + n) * RankProduct(n - 1)

\* _rrf_score(rank, k) = 1.0 / (k + rank), as an exact multiple of 1 / RankProduct(MaxHitChunks).
rrf_score(rank, k) == RankProduct(MaxHitChunks) \div (k + rank)

\* A ranked list without repetition: the vector hits, the full-text results.
RankedLists == UNION {{q \in [1..n -> HitChunkIds] : \A i, j \in 1..n : q[i] = q[j] => i = j} :
                        n \in 0..MaxHitChunks}

\* The orders in which a select without ORDER BY can return the chunks of the hits.
RowOrders(hits) == {q \in RankedLists : Len(q) = Len(hits) /\ \A i \in 1..Len(hits) :
                                                          \E j \in 1..Len(q) : q[j] = hits[i]}

\* rank of a chunk in a ranked list (vector_id_to_rank).
RankIn(list, id) == CHOOSE i \in 1..Len(list) : list[i] = id

\* chunk_rrf_scores[id] = chunk_rrf_scores.get(id, 0.0) + score, on the dict kept as
\* the sequence of its items in insertion order.
ScoreAdd(scores, id, score) ==
    IF \E i \in 1..Len(scores) : scores[i].id = id
    THEN [i \in 1..Len(scores) |->
            IF scores[i].id = id THEN [scores[i] EXCEPT !.score = @ + score] ELSE scores[i]]
    ELSE Append(scores, [id |-> id, score |-> score])

\* Step 1 for one query: the rows of the hits, in the order the select returned them.
RECURSIVE AddVectorRows(_, _, _)
AddVectorRows(scores, rows, hits) ==
    IF rows = <<>> THEN scores
    ELSE AddVectorRows(ScoreAdd(scores, Head(rows), rrf_score(RankIn(hits, Head(rows)), RRF_K)),
                       Tail(rows), hits)

\* Step 2 for one query: the full-text results (chunk, rank) in their order.
RECURSIVE AddFullText(_, _, _)
AddFullText(scores, results, rank) ==
    IF results = <<>> THEN scores
    ELSE AddFullText(ScoreAdd(scores, Head(results), rrf_score(rank, RRF_K)),
                     Tail(results), rank + 1)

\* sorted(items, key=score, reverse=True): stable, equal scores keep their order.
RECURSIVE SortedByScoreDesc(_)
InsertByScore(sorted, item) ==
    LET before == {i \in 1..Len(sorted) : sorted[i].score >= item.score}
        n == Cardinality(before)
    IN  SubSeq(sorted, 1, n) \o <<item>> \o SubSeq(sorted, n + 1, Len(sorted))
SortedByScoreDesc(items) ==
    IF items = <<>> THEN <<>>
    ELSE InsertByScore(SortedByScoreDesc(SubSeq(items, 1, Len(items) - 1)), items[Len(items)])

\* chunk_rrf_scores after steps 1 and 2 (use_hybrid = FALSE skips step 2).
FusedScores(hits, rows, fulltext, use_hybrid) ==
    IF use_hybrid
    THEN AddFullText(AddVectorRows(<<>>, rows, hits), fulltext, 1)
    ELSE AddVectorRows(<<>>, rows, hits)

\* candidate_chunks = sorted(...)[:top_k * 2]
RrfCandidates(scores, top_k) == Take(SortedByScoreDesc(scores), top_k * 2)

\* The arguments of one retrieval and what its searches return.
TopKs == {1, TOP_K}
FuseCalls ==
    {c \in [op : {"rrf_call"}, hits : RankedLists, rows : RankedLists,
            fulltext : RankedLists, use_hybrid : BOOLEAN, top_k : TopKs] :
        c.rows \in RowOrders(c.hits)}

\* The fusion runs.
RrfFuseReq ==
    /\ last.op = "rrf_call"
    /\ \E scores \in {FusedScores(last.hits, last.rows, last.fulltext, last.use_hybrid)} :
          last' = [op |-> "rrf_candidates", top_k |-> last.top_k, scores |-> scores,
                   candidates |-> RrfCandidates(scores, last.top_k)]
    /\ UNCHANGED <<storeVars, queue, vs, sessions, limits, chatVars>>

\* ------------------------------------------------- neighbour chunks (_expand_chunks_with_window)
\* The chunk rows the expansion reads: file 1 in knowledge base 1 with chunk_index
\* 0..MaxWindowIndex, file 2 in knowledge bases 1 and 2 (a file linked to both has
\* chunk rows in each).
MaxWindowIndex == 4
MaxWindow == 2
WindowRows ==
    {[id |-> i + 1, file_id |-> 1, idx |-> i, kb |-> 1] : i \in 0..MaxWindowIndex}
    \cup {[id |-> MaxWindowIndex + 2, file_id |-> 2, idx |-> 0, kb |-> 1],
          [id |-> MaxWindowIndex + 3, file_id |-> 2, idx |-> 0, kb |-> 2],
          [id |-> MaxWindowIndex + 4, file_id |-> 2, idx |-> 1, kb |-> 2]}

SetMin(S) == CHOOSE x \in S : \A y \in S : x <= y
SetMax(S) == CHOOSE x \in S : \A y \in S : x >= y

\* The select of one file: file_id = fid, lo <= chunk_index <= hi.
WindowOfFile(rows, fid, indices, window) ==
    {r \in rows : /\ r.file_id = fid
                  /\ r.idx >= Max(0, SetMin(indices) - window)
                  /\ r.idx <= SetMax(indices) + window}

\* expanded.sort(key=(file_id, chunk_index)) on rows selected ORDER BY chunk_index; rows
\* with the same file and index are put in id order.
RowBefore(a, b) ==
    \/ a.file_id < b.file_id
    \/ a.file_id = b.file_id /\ a.idx < b.idx
    \/ a.file_id = b.file_id /\ a.idx = b.idx /\ a.id < b.id

RECURSIVE SortedRows(_)
SortedRows(S) ==
    IF S = {} THEN <<>>
    ELSE LET first == CHOOSE a \in S : \A b \in S \ {a} : RowBefore(a, b)
         IN  <<first>> \o SortedRows(S \ {first})

\* _expand_chunks_with_window(chunks, window)
expand_chunks_with_window(rows, retrieved, window) ==
    IF retrieved = <<>> \/ window <= 0 THEN retrieved
    ELSE SortedRows(UNION {WindowOfFile(rows, fid,
                                        {retrieved[i].idx : i \in {j \in 1..Len(retrieved) :
                                                                    retrieved[j].file_id = fid}},
                                        window) :
                           fid \in {retrieved[i].file_id : i \in 1..Len(retrieved)}})

\* The chunks handed to the expansion: at most MaxRetrieved rows, each once.
MaxRetrieved == 2
ExpandCalls ==
    {c \in [op : {"expand_call"}, window : 0..MaxWindow,
            chunks : UNION {[1..n -> WindowRows] : n \in 0..MaxRetrieved}] :
        \A i, j \in 1..Len(c.chunks) : c.chunks[i] = c.chunks[j] => i = j}

\* The expansion runs.
ExpandReq ==
    /\ last.op = "expand_call"
    /\ last' = [op |-> "expanded", window |-> last.window, chunks |-> last.chunks,
                expanded |-> expand_chunks_with_window(WindowRows, last.chunks, last.window)]
    /\ UNCHANGED <<storeVars, queue, vs, sessions, limits, chatVars>>

\* ------------------------------------------------- _rag_context, from the searches to the result
\* settings.RAG_CONTEXT_WINDOW_EXPAND
RAG_CONTEXT_WINDOW_EXPAND == 1
\* Confidences of a retrieval are exact, in units of 1 / ConfidenceOne: a relevance
\* score is given in tenths, an RRF score in 1 / RankProduct(MaxHitChunks).
ConfidenceOne == 10 * RankProduct(MaxHitChunks)
FromTenths(t) == t * RankProduct(MaxHitChunks)

\* The chunk row of a hit chunk id.
RowOfChunk(id) == CHOOSE r \in WindowRows : r.id = id

\* The searches of a retrieval see lists of at most MaxListLen chunks.
MaxListLen == 2
ShortLists == {q \in RankedLists : Len(q) <= MaxListLen}
\* The rerank API answers of at most MaxListLen items.
ShortApiResponses == {a \in ApiResponses : a.status = "ok" => Len(a.results) <= MaxListLen}

\* The fallback left out (not what the code does).
NoFallbackChunks(kb_chunks, top_k) ==
    [context |-> <<>>, confidence |-> 0, selected |-> <<>>, max_rrf |-> 0]

\* The fallback of _rag_context when no chunk was scored: the first top_k * 2 chunks of
\* the knowledge base with content, by id, with confidence 0.5; nothing for an empty one.
FallbackChunks(kb_chunks, top_k) ==
    IF kb_chunks = <<>>
    THEN [context |-> <<>>, confidence |-> 0, selected |-> <<>>, max_rrf |-> 0]
    ELSE [context |-> Take(kb_chunks, top_k * 2), confidence |-> FromTenths(HalfScore),
          selected |-> [i \in 1..Len(Take(kb_chunks, top_k * 2)) |->
                          [chunk |-> kb_chunks[i], relevance_score |-> HalfScore,
                           rrf_score |-> 0]],
          max_rrf |-> 0]

\* candidate_chunks as (chunk, rrf_score) pairs.
AsCandidates(cands) == [i \in 1..Len(cands) |-> [chunk |-> cands[i].id, rrf_score |-> cands[i].score]]

\* max_conf of _rag_context: the highest relevance score of the selected chunks; when
\* that is 0.0, min(1.0, max_rrf * k) for a positive highest RRF score.
MaxConf(selected, k) ==
    LET max_rel == SetMax({selected[i].relevance_score : i \in 1..Len(selected)})
        max_rrf == SetMax({selected[i].rrf_score : i \in 1..Len(selected)})
    IN  IF max_rel = 0 /\ max_rrf > 0
        THEN Min(ConfidenceOne, max_rrf * k * 10)
        ELSE FromTenths(max_rel)

\* The context: the texts of the selected chunks, with their neighbours when the
\* window is positive (a text is named by its chunk id).
ContextOf(chunk_list, window) ==
    IF window > 0
    THEN LET rows == expand_chunks_with_window(WindowRows,
                        [i \in 1..Len(chunk_list) |-> RowOfChunk(chunk_list[i])], window)
         IN  [i \in 1..Len(rows) |-> rows[i].id]
    ELSE chunk_list

\* Steps 4 and 5 and the assembly, on the candidates.
Assemble(selected, window) ==
    [context |-> ContextOf([i \in 1..Len(selected) |-> selected[i].chunk], window),
     confidence |-> MaxConf(selected, RRF_K),
     selected |-> selected,
     max_rrf |-> SetMax({selected[i].rrf_score : i \in 1..Len(selected)})]

\* _rag_context: a search that raises is logged and counts as no result.
rag_context_kb(c) ==
    LET scores == FusedScores(IF c.vector_raised THEN <<>> ELSE c.hits,
                              IF c.vector_raised THEN <<>> ELSE c.rows,
                              IF c.fulltext_raised THEN <<>> ELSE c.fulltext,
                              c.use_hybrid)
    IN  IF scores = <<>> THEN FallbackChunks(c.kb_chunks, TOP_K)
        ELSE Assemble(SelectedChunks(AsCandidates(RrfCandidates(scores, TOP_K)),
                                     c.use_rerank, c.api),
                      c.window)

\* The chunks with content of the knowledge base, by id: none, or all hit chunks.
KbChunkLists == {<<>>, [i \in 1..MaxHitChunks |-> i]}

\* One retrieval: the settings of the knowledge base and what the searches and the
\* reranker do.  A search finds only chunks of the knowledge base.
RetrieveCalls ==
    {c \in [op : {"retrieve_call"}, vector_raised : BOOLEAN, hits : ShortLists,
            rows : ShortLists, fulltext_raised : BOOLEAN, fulltext : ShortLists,
            use_hybrid : BOOLEAN, use_rerank : BOOLEAN, api : ShortApiResponses,
            kb_chunks : KbChunkLists, window : {0, RAG_CONTEXT_WINDOW_EXPAND}] :
        /\ c.rows \in RowOrders(c.hits)
        /\ c.vector_raised => c.hits = <<>>
        /\ c.fulltext_raised => c.fulltext = <<>>
        /\ c.kb_chunks = <<>> => c.hits = <<>> /\ c.fulltext = <<>>}

\* The retrieval runs.
RetrieveReq ==
    /\ last.op = "retrieve_call"
    /\ \E r \in {rag_context_kb(last)} :
          last' = [op |-> "retrieved", call |-> last, raised |-> FALSE,
                   context |-> r.context, confidence |-> r.confidence,
                   selected |-> r.selected, max_rrf |-> r.max_rrf]
    /\ UNCHANGED <<storeVars, queue, vs, sessions, limits, chatVars>>


\* ------------------------------------------- the chunks a scoped chat may use
\* The user of the other account.
OtherUser == "u2"
\* Both knowledge bases of WindowRows belong to TheUser.
KbOwner(k) == TheUser

\* A chat request with knowledge_base_id: the caller, the knowledge base asked for
\* and the chunks the vector search hits (it searches with filter_expr = None, so
\* it hits chunks of any knowledge base).
ScopeCalls ==
    {c \in [op : {"scope_call"}, user : {TheUser, OtherUser},
            knowledge_base_id : {r.kb : r \in WindowRows},
            hits : SUBSET {r.id : r \in WindowRows},
            window : {0, RAG_CONTEXT_WINDOW_EXPAND}] :
        Cardinality(c.hits) <= MaxRetrieved}

\* _chat_after_user_message with knowledge_base_id, and _rag_context under it: the
\* knowledge base is read by its id, the hits are kept when their row has
\* knowledge_base_id = the id asked for, without a hit the chunks of that
\* knowledge base are taken, and the selected chunks are expanded by the window.
\* The caller's user id takes no part.
kb_scoped_chunks(c) ==
    LET retrieved == SortedRows({r \in WindowRows :
                                    r.id \in c.hits /\ r.kb = c.knowledge_base_id})
    IN  IF retrieved = <<>>
        THEN [selected |-> SortedRows({r \in WindowRows : r.kb = c.knowledge_base_id}),
              context |-> SortedRows({r \in WindowRows : r.kb = c.knowledge_base_id})]
        ELSE [selected |-> retrieved,
              context |-> expand_chunks_with_window(WindowRows, retrieved, c.window)]

\* The chat request retrieves its context and its citations.
ScopedChatReq ==
    /\ last.op = "scope_call"
    /\ \E r \in {kb_scoped_chunks(last)} :
          last' = [op |-> "scoped", user |-> last.user,
                   knowledge_base_id |-> last.knowledge_base_id, window |-> last.window,
                   selected |-> r.selected, context |-> r.context]
    /\ UNCHANGED <<storeVars, queue, vs, sessions, limits, chatVars>>


\* ------------------------------------------- cached detail reads, by any user
\* The conversations of the model are created by TheUser.
ConvOwner(c) == TheUser

\* GET /chat/conversations/{conv_id} called by `user`: the cache is read first
\* under key_conv_detail(conv_id), a key without the user; only on a miss
\* get_conversation(conv_id, user_id) is asked, and its row is cached.
GetConversationAs(user, c) ==
    LET cached == CacheGet(cache, key_conv_detail(c))
    IN  /\ IF cached.hit
           THEN /\ last' = [op |-> "get_conversation_as", user |-> user, conv |-> c,
                            status |-> 200, messages |-> cached.value, cached |-> TRUE]
                /\ UNCHANGED cache
           ELSE IF ConvExists(conversations, c) /\ ConvOwner(c) = user
           THEN /\ cache' = CacheSet(cache, key_conv_detail(c), messages[c])
                /\ last' = [op |-> "get_conversation_as", user |-> user, conv |-> c,
                            status |-> 200, messages |-> messages[c], cached |-> FALSE]
           ELSE /\ last' = [op |-> "get_conversation_as", user |-> user, conv |-> c,
                            status |-> 404, messages |-> <<>>, cached |-> FALSE]
                /\ UNCHANGED cache
        /\ UNCHANGED <<storeVars, queue, vs, sessions, limits, conversations, nextConvId,
                       messages, gen>>

\* ------------------------------------------------- chat with MCP tools
\* max_tool_rounds of _chat_after_user_message.
max_tool_rounds == 5
\* The model asks for at most MaxToolCalls tools in one round.
MaxToolCalls == 1

\* The texts stored when no answer was produced.
NoValidAnswer == "no_valid_answer"
NoFinalAnswer == "no_final_answer"
ChatFailure == "chat_failure"

\* msg.content of the completion: None or "" , blanks, a text.
RawContents == {"", " ", "answer"}
\* (msg.content or "").strip() or None ("" stands for None)
Strip(raw) == IF raw = " " THEN "" ELSE raw

\* A tool the model names: in call_map and returning, in call_map and raising, or
\* not in call_map.
ToolKinds == {"known", "raising", "unknown"}
ToolCallSeqs == UNION {[1..n -> ToolKinds] : n \in 0..MaxToolCalls}

\* What one chat_completion_with_tools call does: it raises, or returns (content, tool_calls).
LlmRounds ==
    {[raised |-> TRUE, raw |-> "", tool_calls |-> <<>>]}
    \cup {[raised |-> FALSE, raw |-> raw, tool_calls |-> tcs] :
            raw \in RawContents, tcs \in ToolCallSeqs}

\* tool_result of one tool call.
ToolResult(tc) ==
    IF tc = "unknown" THEN "unknown_tool"
    ELSE IF tc = "raising" THEN "tool_error"
    ELSE "tool_output"

\* The messages appended in a round that calls tools: the assistant's tool_calls message,
\* then one tool message per call.
RoundMessages(tcs) == <<"tool_calls">> \o [i \in 1..Len(tcs) |-> ToolResult(tcs[i])]

\* The loop left without the closing `if not assistant_content` (not what the code does).
AfterLoopUnchecked(assistant_content) == assistant_content

\* assistant_content when the for loop is left: `if not assistant_content`.
AfterLoop(assistant_content) ==
    IF assistant_content = "" THEN NoFinalAnswer ELSE assistant_content

\* One pass of `for _ in range(max_tool_rounds)` on the completion r, from the loop
\* state g; the pass that ends the loop also runs the statement after it.
ToolRoundStep(g, r) ==
    IF r.raised
    THEN [g EXCEPT !.pc = "tool_exit", !.round = @ + 1, !.assistant_content = ChatFailure]
    ELSE IF Strip(r.raw) # ""
    THEN [g EXCEPT !.pc = "tool_exit", !.round = @ + 1,
                   !.assistant_content = AfterLoop(Strip(r.raw))]
    ELSE IF r.tool_calls = <<>>
    THEN [g EXCEPT !.pc = "tool_exit", !.round = @ + 1,
                   !.assistant_content = AfterLoop(NoValidAnswer)]
    ELSE IF g.round + 1 < max_tool_rounds
    THEN [g EXCEPT !.round = @ + 1, !.tool_messages = @ \o RoundMessages(r.tool_calls)]
    ELSE [g EXCEPT !.pc = "tool_exit", !.round = @ + 1,
                   !.tool_messages = @ \o RoundMessages(r.tool_calls),
                   !.assistant_content = AfterLoop(g.assistant_content)]

\* POST /chat/completions with enabled MCP servers: chat() up to the first completion.
\* The conversation is fetched or created, the user message flushed.
ToolChatOpen(c, maxConv) ==
    /\ gen.pc = "idle"
    /\ IF c = 0
       THEN /\ nextConvId <= maxConv
            /\ conversations' = conversations \cup {NewConv(nextConvId)}
            /\ nextConvId' = nextConvId + 1
            /\ messages' = Append(messages, <<>>)
            /\ gen' = [pc |-> "tool_loop", conv |-> nextConvId, round |-> 0,
                       tool_messages |-> <<>>, assistant_content |-> ""]
       ELSE /\ ConvExists(conversations, c)
            /\ Len(messages[c]) + 2 <= MaxMsgs
            /\ gen' = [pc |-> "tool_loop", conv |-> c, round |-> 0,
                       tool_messages |-> <<>>, assistant_content |-> ""]
            /\ UNCHANGED <<conversations, nextConvId, messages>>
    /\ last' = [op |-> "tool_chat_open", conv |-> c]
    /\ UNCHANGED <<storeVars, queue, vs, sessions, limits, cache>>

\* chat_completion_with_tools returns (or raises) and the pass of the loop runs.
ToolRound(r) ==
    /\ gen.pc = "tool_loop"
    /\ gen' = ToolRoundStep(gen, r)
    /\ last' = [op |-> "tool_round", round |-> gen.round + 1]
    /\ UNCHANGED <<storeVars, queue, vs, sessions, limits, conversations, nextConvId, messages, cache>>

\* The assistant message is added and the turn committed.
ToolChatPersist ==
    /\ gen.pc = "tool_exit"
    /\ messages' = [messages EXCEPT ![gen.conv] =
                        @ \o <<UserMsg, Msg("assistant", <<gen.assistant_content>>)>>]
    /\ gen' = NoGen
    /\ last' = [op |-> "tool_chat", conv |-> gen.conv, status |-> 200, rounds |-> gen.round,
                message |-> gen.assistant_content]
    /\ UNCHANGED <<storeVars, queue, vs, sessions, limits, conversations, nextConvId, cache>>

\* ------------------------------------------------- the context given to the LLM
\* Confidences are in tenths.  settings.RAG_CONFIDENCE_THRESHOLD is 0.6; the fallback
\* of a knowledge-base query reports 0.5.
RAG_CONFIDENCE_THRESHOLD == 6
FallbackConfidence == 5
Confidences == {0, 3, 5, 6, 10}

\* Texts are sequences of parts.  The retrieved texts of at most MaxContextChunks chunks.
MaxContextChunks == 2
ContextTexts == {[i \in 1..n |-> "chunk"] : n \in 0..MaxContextChunks}
LowConfidenceWarning == "low_confidence_warning"

\* What _rag_context / _rag_context_all_kbs return (context, confidence), or raise.
Retrievals ==
    {[raised |-> FALSE, context |-> c, confidence |-> conf] :
        c \in ContextTexts, conf \in Confidences}
    \cup {[raised |-> TRUE, context |-> <<>>, confidence |-> 0]}

\* rag_context and rag_confidence of a query on one knowledge base: the retrieval,
\* else the first chunks of the knowledge base with confidence 0.5 (fallback is their
\* text; empty when there is none or the select raises).
KbScopedRag(retrieved, fallback) ==
    IF retrieved.context # <<>>
    THEN [context |-> retrieved.context, confidence |-> retrieved.confidence, found |-> TRUE]
    ELSE IF fallback # <<>>
    THEN [context |-> fallback, confidence |-> FallbackConfidence, found |-> TRUE]
    ELSE [context |-> <<>>, confidence |-> retrieved.confidence, found |-> FALSE]

\* rag_context and rag_confidence of a query on all knowledge bases.
AllKbsRag(retrieved) ==
    IF retrieved.raised
    THEN [context |-> <<>>, confidence |-> 0, found |-> FALSE]
    ELSE [context |-> retrieved.context, confidence |-> retrieved.confidence,
          found |-> retrieved.context # <<>>]

\* full_context of _chat_after_user_message and of chat_stream (the same statements
\* in both): rag is the retrieval's result, scoped tells a knowledge-base query.
FullContext(endpoint, scoped, rag, history) ==
    LET low_confidence_warning ==
            IF ~scoped /\ rag.context # <<>> /\ rag.confidence < RAG_CONFIDENCE_THRESHOLD
            THEN LowConfidenceWarning ELSE ""
        rag_context ==
            IF scoped
            THEN IF rag.context = <<>> THEN <<"nothing_found_notice:" \o endpoint>>
                 ELSE rag.context
            ELSE IF low_confidence_warning # ""
                 THEN <<low_confidence_warning>> \o rag.context
                 ELSE rag.context
        head == IF rag_context = <<>> THEN <<>>
                ELSE IF low_confidence_warning # ""
                        /\ rag.confidence < RAG_CONFIDENCE_THRESHOLD
                     THEN <<"kb_context_low_confidence">> \o rag_context
                     ELSE <<"kb_context">> \o rag_context
    IN  head \o (IF history # <<>> THEN <<"chat_history">> \o history ELSE <<>>)

\* A turn of chat or chat_stream up to the call of the LLM.  Only the query on all
\* knowledge bases catches a raising retrieval; only the query on one knowledge base
\* has the fallback.
LlmCalls ==
    {c \in [op : {"llm_call"}, endpoint : {"chat", "chat_stream"}, scoped : BOOLEAN,
            retrieved : Retrievals, fallback : ContextTexts,
            history : {<<>>, <<"turn">>}] :
        IF c.scoped THEN ~c.retrieved.raised ELSE c.fallback = <<>>}

\* The context is assembled and handed to the LLM.
LlmContextReq ==
    /\ last.op = "llm_call"
    /\ \E rag \in {IF last.scoped THEN KbScopedRag(last.retrieved, last.fallback)
                    ELSE AllKbsRag(last.retrieved)} :
          last' = [op |-> "llm_context", endpoint |-> last.endpoint, scoped |-> last.scoped,
                   rag |-> rag,
                   context |-> FullContext(last.endpoint, last.scoped, rag, last.history)]
    /\ UNCHANGED <<storeVars, queue, vs, sessions, limits, chatVars>>


\* ------------------------------------------------------------ the rate limiter
\* settings.RATE_LIMIT_UPLOAD_PER_DAY and RATE_LIMIT_CONVERSATION_PER_DAY, set low.
RATE_LIMIT_UPLOAD_PER_DAY == 2
RATE_LIMIT_CONVERSATION_PER_DAY == 1
\* The clock runs over MaxDays days; a counter is incremented at most MaxOverLimit
\* times beyond its limit.
MaxDays == 2
MaxOverLimit == 2
LimitKinds == {"upload", "chat"}
\* rate:upload:user:{id}:day:{date} and rate:chat:user:{id}:day:{date} of the user.
RateKeys == LimitKinds \X (1..MaxDays)
DailyLimit(kind) ==
    IF kind = "upload" THEN RATE_LIMIT_UPLOAD_PER_DAY ELSE RATE_LIMIT_CONVERSATION_PER_DAY

\* No counter exists (a missing key counts 0), it is day 1, nothing was let through.
NoLimits ==
    [day |-> 1,
     counters |-> [k \in RateKeys |-> 0],
     admitted |-> [k \in RateKeys |-> 0],
     outage |-> [k \in RateKeys |-> FALSE]]

\* The comparison without the limit.
AllowedUnchecked(n, limit) == TRUE

\* `n <= limit` of the returned tuple.
Allowed(n, limit) == n <= limit

\* check_and_incr_upload / check_and_incr_conversation: with the limiter enabled
\* and Redis reachable, INCR (atomic in Redis) returns the new count n and the
\* request is allowed iff n <= limit; with Redis unreachable (or INCR raising) the
\* request is allowed and nothing is counted.
check_and_incr(l, kind, reachable) ==
    LET key == <<kind, l.day>>
        n == l.counters[key] + 1
    IN  IF reachable
        THEN [counters |-> [l.counters EXCEPT ![key] = n],
              allowed |-> Allowed(n, DailyLimit(kind)), n |-> n]
        ELSE [counters |-> l.counters, allowed |-> TRUE, n |-> 0]

\* require_upload_rate_limit / require_chat_rate_limit, the dependency of
\* POST /files/upload, /files/batch-upload, /chat/completions and
\* /chat/completions/stream: it runs before the handler; a request that is not
\* allowed is answered 429, an allowed one goes on to its handler.
RateLimitedRequest(s, kind, reachable) ==
    LET key == <<kind, limits.day>>
    IN  /\ sessions[s].pc = "idle"
        /\ limits.counters[key] < DailyLimit(kind) + MaxOverLimit
        /\ limits.admitted[key] < DailyLimit(kind) + MaxOverLimit
        /\ \E r \in {check_and_incr(limits, kind, reachable)} :
              /\ limits' = [limits EXCEPT
                              !.counters = r.counters,
                              !.admitted[key] = IF r.allowed THEN @ + 1 ELSE @,
                              !.outage[key] = @ \/ ~reachable]
              /\ sessions' = [sessions EXCEPT ![s] =
                                IF r.allowed THEN [pc |-> "admitted", kind |-> kind]
                                ELSE NoSession]
              /\ last' = [op |-> "rate_limit", session |-> s, kind |-> kind,
                          day |-> limits.day, n |-> r.n,
                          status |-> IF r.allowed THEN 200 ELSE 429]
        /\ UNCHANGED <<storeVars, queue, vs, chatVars>>

\* The handler of an admitted upload request: the file is ingested.
AdmittedUpload(s, md5, ft) ==
    /\ sessions[s].pc = "admitted"
    /\ sessions[s].kind = "upload"
    /\ \E r \in {UploadFile(Cur, md5, ft, "use_existing")} :
          /\ InBounds(r.d)
          /\ Install(r.d)
          /\ last' = [op |-> "upload", md5 |-> md5, policy |-> "use_existing",
                      id |-> r.id, created |-> r.created]
    /\ sessions' = [sessions EXCEPT ![s] = NoSession]
    /\ UNCHANGED <<queue, vs, limits, chatVars>>

\* The handler of an admitted chat request (no conversation_id): the LLM answers
\* and the turn is stored in a new conversation.
AdmittedChat(s, maxConv) ==
    /\ sessions[s].pc = "admitted"
    /\ sessions[s].kind = "chat"
    /\ nextConvId <= maxConv
    /\ conversations' = conversations \cup {NewConv(nextConvId)}
    /\ nextConvId' = nextConvId + 1
    /\ messages' = Append(messages, <<UserMsg, Msg("assistant", <<"answer">>)>>)
    /\ last' = [op |-> "chat", conv |-> nextConvId, status |-> 200]
    /\ sessions' = [sessions EXCEPT ![s] = NoSession]
    /\ UNCHANGED <<storeVars, queue, vs, limits, gen, cache>>

\* The date of the clock changes: later requests count under the next day's keys.
Midnight ==
    /\ limits.day < MaxDays
    /\ limits' = [limits EXCEPT !.day = @ + 1]
    /\ UNCHANGED <<storeVars, queue, vs, sessions, chatVars, last>>

\* r.expire(key, 86400 * 2) set at the first INCR: the key lives two days, so it
\* is gone only after its day is over.
CounterExpire(key) ==
    /\ key[2] < limits.day
    /\ limits.counters[key] > 0
    /\ limits' = [limits EXCEPT !.counters[key] = 0]
    /\ UNCHANGED <<storeVars, queue, vs, sessions, chatVars, last>>


\* ---------------------------------------- the messages table and its timestamps
\* The server's clock shows the times 1..MaxTime.
MaxTime == 3

\* A Message row with its autoincrement id and its created_at, the server's now()
\* at the insert (server_default=func.now()).
TimedMsg(id, role, created_at) == [id |-> id, role |-> role, created_at |-> created_at]

\* The latest created_at of the table (the clock never runs backwards).
LatestCreatedAt(msgs) ==
    SetMax({1} \cup UNION {{msgs[c][i].created_at : i \in 1..Len(msgs[c])} :
                               c \in DOMAIN msgs})

\* ChatService.chat on conversation c (0: a new one): the user message is added and
\* flushed, the assistant message is added and the transaction committed.  Both
\* rows take their created_at from the server: now_user at the flush, now_asst at
\* the commit, the same time when now() is the transaction's time or the clock has
\* not advanced in between.
TimedChatReq(c, now_user, now_asst, maxConv) ==
    /\ LatestCreatedAt(messages) <= now_user
    /\ now_user <= now_asst
    /\ IF c = 0
       THEN /\ nextConvId <= maxConv
            /\ conversations' = conversations \cup {NewConv(nextConvId)}
            /\ nextConvId' = nextConvId + 1
            /\ messages' = Append(messages, <<TimedMsg(1, "user", now_user),
                                              TimedMsg(2, "assistant", now_asst)>>)
            /\ last' = [op |-> "chat", conv |-> nextConvId, status |-> 200]
       ELSE /\ ConvExists(conversations, c)
            /\ Len(messages[c]) + 2 <= MaxMsgs
            /\ messages' = [messages EXCEPT ![c] =
                              @ \o <<TimedMsg(Len(@) + 1, "user", now_user),
                                     TimedMsg(Len(@) + 2, "assistant", now_asst)>>]
            /\ last' = [op |-> "chat", conv |-> c, status |-> 200]
            /\ UNCHANGED <<conversations, nextConvId>>
    /\ UNCHANGED <<storeVars, queue, vs, sessions, limits, gen, cache>>

\* The orders `ORDER BY created_at ASC` can return the rows in: rows of equal
\* created_at come in any order.
OrderedByCreatedAt(rows) ==
    {q \in [1..Len(rows) -> {rows[i] : i \in 1..Len(rows)}] :
        /\ \A i, j \in 1..Len(rows) : i # j => q[i] # q[j]
        /\ \A i, j \in 1..Len(rows) : i < j => q[i].created_at <= q[j].created_at}

\* get_conversation_messages of the owner's conversation c.
GetConversationMessagesReq(c) ==
    /\ ConvExists(conversations, c)
    /\ \E q \in OrderedByCreatedAt(messages[c]) :
          last' = [op |-> "get_conversation_messages", conv |-> c, messages |-> q]
    /\ UNCHANGED <<storeVars, queue, vs, sessions, limits, chatVars>>

IngestInit ==
    /\ files = [f \in FileIds |-> NoFile]
    /\ nextFileId = 1
    /\ kb = [k \in KbIds |-> [file_count |-> 0, chunk_count |-> 0]]
    /\ kb_files = [k \in KbIds |-> [f \in FileIds |-> 0]]
    /\ chunks = {}
    /\ nextChunkId = 1
    /\ vectors = {}
    /\ queue = <<>>
    /\ sessions = [s \in SessionIds |-> NoSession]
    /\ limits = NoLimits

\* The settings' default adapter: VECTOR_DB_TYPE = "zilliz".
DefaultVs == [type |-> "zilliz", seed |-> 0]

\* No conversation, no request in flight, an empty cache.
ChatIdle ==
    /\ conversations = {}
    /\ nextConvId = 1
    /\ messages = <<>>
    /\ gen = NoGen
    /\ cache = [k \in CacheKeys |-> Miss]

Init ==
    /\ IngestInit
    /\ vs = DefaultVs
    /\ ChatIdle
    /\ last = NoResp

Next ==
    \/ \E md5 \in Contents, policy \in Policies : Upload(md5, TypeOfContent(md5), policy)
    \/ \E fid \in FileIds : DeleteFileReq(fid)
    \/ \E k \in KbIds, fids \in Batches : \E outs \in OutSeqs(Len(fids)) :
            AddFilesReq(k, fids, outs)
    \/ \E k \in KbIds, fids \in Batches : \E outs \in OutSeqs(Len(fids)) :
            AddFilesStreamReq(k, fids, outs)
    \/ \E k \in KbIds, fid \in FileIds, vdel \in BOOLEAN : RemoveFileReq(k, fid, vdel)
    \/ \E k \in KbIds, fid \in FileIds, vdel \in BOOLEAN, out \in Outcomes :
            ReindexFileReq(k, fid, vdel, out)

Spec == Init /\ [][Next]_vars

\* Batches of several files through add_files and add_files_stream; each file yields
\* at most one text chunk (a failing image embedding is in Next, with single files).
BatchOutSeqs == [1..BatchLen -> {o \in Outcomes : o.n <= 1 /\ o.kind # "img_fail"}]

NextBatch ==
    \/ \E md5 \in Contents : Upload(md5, TypeOfContent(md5), "use_existing")
    \/ \E k \in KbIds, fids \in LongBatches, outs \in BatchOutSeqs :
            AddFilesReq(k, fids, outs)
    \/ \E k \in KbIds, fids \in LongBatches, outs \in BatchOutSeqs :
            AddFilesStreamReq(k, fids, outs)
    \/ \E k \in KbIds, fid \in FileIds : RemoveFileReq(k, fid, TRUE)

SpecBatch == Init /\ [][NextBatch]_vars

\* The async endpoints with the worker.  Inputs are drawn only where the handler
\* reads them: whether the task landed only on a timeout, the collaborators' outcomes
\* only for an operation that runs, one outcome per file the operation touches.
TaskOutSeqs == [FileIds -> TaskOutcomes]
SameOuts == {[f \in FileIds |-> o] : o \in TaskOutcomes}
Landings(submit) == IF submit = "timeout" THEN BOOLEAN ELSE {FALSE}
OutsForTask(t) ==
    IF t.name = "reindex_all_async" \/ Len(t.fids) > 1 THEN TaskOutSeqs ELSE SameOuts
OutsFor(t, submit) ==
    IF SyncFallbackOn(t.name, submit)
    THEN OutsForTask(t)
    ELSE {[f \in FileIds |-> [kind |-> "ok", n |-> 1]]}
VdelsFor(endpoint, submit) ==
    IF SyncFallbackOn(endpoint, submit) THEN BOOLEAN ELSE {TRUE}

NextAsync ==
    \/ \E md5 \in Contents : Upload(md5, TypeOfContent(md5), "use_existing")
    \/ \E k \in KbIds, fids \in Batches, submit \in SubmitOutcomes :
         \E landed \in Landings(submit),
            outs \in OutsFor([name |-> "add_files_async", fids |-> fids], submit) :
              AddFilesAsyncReq(k, fids, submit, landed, outs)
    \/ \E k \in KbIds, fid \in FileIds, submit \in SubmitOutcomes :
         \E landed \in Landings(submit),
            vdel \in VdelsFor("reindex_file_async", submit),
            outs \in OutsFor([name |-> "reindex_file_async", fids |-> <<fid>>], submit) :
              ReindexFileAsyncReq(k, fid, submit, landed, vdel, outs)
    \/ \E k \in KbIds, submit \in SubmitOutcomes :
         \E landed \in Landings(submit),
            vdel \in VdelsFor("reindex_all_async", submit),
            outs \in OutsFor([name |-> "reindex_all_async", fids |-> <<>>], submit) :
              ReindexAllAsyncReq(k, submit, landed, vdel, outs)
    \/ \E vdel \in BOOLEAN : \E outs \in (IF queue = <<>> THEN {} ELSE OutsForTask(Head(queue))) :
         RunTask(vdel, outs)

SpecAsync == Init /\ [][NextAsync]_vars

\* add_files and remove_file requests (and tasks) that run at the same time.
NextConc ==
    \/ \E md5 \in Contents : Upload(md5, TypeOfContent(md5), "use_existing")
    \/ \E s \in SessionIds, op \in {"add_files", "remove_file"}, k \in KbIds, fid \in FileIds :
            SessionBegin(s, op, k, fid)
    \/ \E s \in SessionIds : SessionLink(s)
    \/ \E s \in SessionIds, out \in TaskOutcomes : SessionCommit(s, out, TRUE)

SpecConc == Init /\ [][NextConc]_vars

\* The chunker on every text and every parameter of the bounds.
InitChunk ==
    /\ IngestInit
    /\ vs = DefaultVs
    /\ ChatIdle
    /\ last \in ChunkTextCalls

NextChunk == ChunkTextReq

SpecChunk == InitChunk /\ [][NextChunk]_vars

\* The context assembly of chat and chat_stream on every retrieval result of the bounds.
InitLlm ==
    /\ IngestInit
    /\ vs = DefaultVs
    /\ ChatIdle
    /\ last \in LlmCalls

NextLlm == LlmContextReq

SpecLlm == InitLlm /\ [][NextLlm]_vars

\* The RRF fusion on every pair of ranked lists of the bounds.
InitFuse ==
    /\ IngestInit
    /\ vs = DefaultVs
    /\ ChatIdle
    /\ last \in FuseCalls

NextFuse == RrfFuseReq

SpecFuse == InitFuse /\ [][NextFuse]_vars

\* The neighbour expansion on every retrieved list of the bounds.
InitExpand ==
    /\ IngestInit
    /\ vs = DefaultVs
    /\ ChatIdle
    /\ last \in ExpandCalls

NextExpand == ExpandReq

SpecExpand == InitExpand /\ [][NextExpand]_vars

\* Retrievals on one knowledge base, with failing searches.
InitRetrieve ==
    /\ IngestInit
    /\ vs = DefaultVs
    /\ ChatIdle
    /\ last \in RetrieveCalls

NextRetrieve == RetrieveReq

SpecRetrieve == InitRetrieve /\ [][NextRetrieve]_vars

\* Chat turns answered through the tool-call loop.
NextTool ==
    \/ \E c \in 0..MaxChatConvs : ToolChatOpen(c, MaxChatConvs)
    \/ \E r \in LlmRounds : ToolRound(r)
    \/ ToolChatPersist

SpecTool == Init /\ [][NextTool]_vars


\* Concurrent upload and chat requests of the user behind the rate limiter.
NextRate ==
    \/ \E s \in SessionIds, kind \in LimitKinds, reachable \in BOOLEAN :
          RateLimitedRequest(s, kind, reachable)
    \/ \E s \in SessionIds, md5 \in Contents : AdmittedUpload(s, md5, TypeOfContent(md5))
    \/ \E s \in SessionIds : AdmittedChat(s, MaxChatConvs)
    \/ Midnight
    \/ \E key \in RateKeys : CounterExpire(key)

SpecRate == Init /\ [][NextRate]_vars


\* Chat turns of a conversation and reads of its messages.
NextOrder ==
    \/ \E c \in 0..MaxChatConvs, now_user \in 1..MaxTime, now_asst \in 1..MaxTime :
          TimedChatReq(c, now_user, now_asst, MaxChatConvs)
    \/ \E c \in ChatConvIds : GetConversationMessagesReq(c)

SpecOrder == Init /\ [][NextOrder]_vars


\* Chats scoped to a knowledge base, by its owner and by another user.
InitScope == IngestInit /\ vs = DefaultVs /\ ChatIdle /\ last \in ScopeCalls

NextScope == ScopedChatReq

SpecScope == InitScope /\ [][NextScope]_vars


\* The owner's chats, plain and streamed, and the detail reads of the owner and of
\* another user.
NextOwner ==
    \/ \E c \in 0..MaxChatConvs, llm_ok \in BOOLEAN : ChatReq(c, llm_ok, MaxChatConvs)
    \/ \E user \in {TheUser, OtherUser}, c \in ChatConvIds : GetConversationAs(user, c)
    \/ \E c \in ChatConvIds : DeleteConversationReq(c)
    \/ \E c \in ChatConvIds : CacheExpire(key_conv_detail(c))
    \/ \E c \in 0..MaxChatConvs : StreamOpen(c, MaxChatConvs)
    \/ \E user_kept \in BOOLEAN : StreamDelta(user_kept)
    \/ \E user_kept \in BOOLEAN : StreamLlmFail(user_kept)
    \/ StreamFinish
    \/ ClientDisconnect

SpecOwner == Init /\ [][NextOwner]_vars


\* The chunker on texts cut by the sliding window; the call keeps running.
InitWindow == IngestInit /\ vs = DefaultVs /\ ChatIdle /\ last \in WindowCalls

NextWindow == WindowOpen \/ WindowStep

SpecWindow == InitWindow /\ [][NextWindow]_vars /\ WF_vars(NextWindow)

\* Retrievals with and without the reranker.
NextRerank ==
    \E n \in 1..MaxCandidates, use_rerank \in BOOLEAN, api \in ApiResponses :
        RagContextReq(n, use_rerank, api)

SpecRerank == Init /\ [][NextRerank]_vars

\* The adapters on their own, under either VECTOR_DB_TYPE.
InitVector ==
    /\ IngestInit
    /\ vs \in [type : AdapterTypes, seed : HashSeeds]
    /\ ChatIdle
    /\ last = NoResp

NextVector ==
    \/ \E ids \in (SUBSET VsChunkIds) \ {{}} : VsInsert(ids)
    \/ \E ids \in (SUBSET VsChunkIds) \ {{}} : VsDeleteFor(ids)
    \/ \E seed \in HashSeeds : Restart(seed)

SpecVector == InitVector /\ [][NextVector]_vars

\* The conversation list under the history limit.
NextConv ==
    \/ ChatReq(0, TRUE, MaxConvs)
    \/ GetConversationsReq
    \/ \E c \in ChatConvIds : DeleteConversationReq(c)
    \/ CacheExpire(ListKey)

SpecConv == Init /\ [][NextConv]_vars

\* Chat turns, streamed answers and cached reads of a conversation.
NextChat ==
    \/ \E c \in 0..MaxChatConvs, llm_ok \in BOOLEAN : ChatReq(c, llm_ok, MaxChatConvs)
    \/ \E c \in ChatConvIds : GetConversationReq(c)
    \/ \E c \in ChatConvIds : DeleteConversationReq(c)
    \/ \E c \in ChatConvIds : CacheExpire(key_conv_detail(c))
    \/ \E c \in 0..MaxChatConvs : StreamOpen(c, MaxChatConvs)
    \/ \E user_kept \in BOOLEAN : StreamDelta(user_kept)
    \/ \E user_kept \in BOOLEAN : StreamLlmFail(user_kept)
    \/ StreamFinish
    \/ ClientDisconnect

SpecChat == Init /\ [][NextChat]_vars

\* ------------------------------------------------- properties of ingestion
\* The chunk rows file f has in knowledge base k, counted over the linked files.
LinkedRowCount(k) ==
    SumOver([f \in FileIds |-> IF kb_files[k][f] > 0
                               THEN Cardinality(ChunksOf(chunks, k, f))
                               ELSE 0], FileIds)

\* C1: in every reachable state, each knowledge base's chunk_count is the sum, over
\* the files linked to it, of the number of chunk rows the file has in it.
C1_ChunkCountIsSumOverLinkedFiles ==
    \A k \in KbIds : kb[k].chunk_count = LinkedRowCount(k)

\* C2: a successful add_files of a file not yet linked, followed by remove_file of the
\* same file, restores the knowledge base's (file_count, chunk_count) to their values
\* before add_files, and leaves in the vector store no vector whose id is the mapping
\* of one of the file's chunk ids in that knowledge base (the store's delete call
\* itself succeeding).
C2_AddThenRemoveRestores ==
    [][ (last'.op = "remove_file" /\ last'.ok /\ last'.vdel /\ last'.after_add)
        => /\ kb'[last'.kb] = last.pre
           /\ VectorIdsOf(ChunksOf(chunks, last'.kb, last'.fid)) \cap vectors' = {} ]_vars

\* C3: in every committed state, every chunk row has its vector in the vector store,
\* under the id derived from the chunk id.
C3_EveryChunkRowHasItsVector ==
    \A c \in chunks : chunk_id_to_vector_id(c.id) \in vectors

\* C4: reindex_file of a linked file leaves the knowledge base's file_count unchanged
\* and its chunk_count at what a fresh add_files of the file produces (the count
\* without the file's old rows, plus the rows of the re-add), whatever the re-add did.
C4_ReindexPreservesCounts ==
    [][ (last'.op = "reindex_file" /\ last'.removed_ok)
        => LET k == last'.kb
               f == last'.fid
           IN  /\ kb'[k].file_count = kb[k].file_count
               /\ kb'[k].chunk_count =
                      kb[k].chunk_count - Cardinality(ChunksOf(chunks, k, f))
                                        + Cardinality(ChunksOf(chunks', k, f)) ]_vars

\* C10: uploading bytes the user already has returns the id of the existing file;
\* with policy use_existing nothing changes; with policy overwrite the file's
\* chunk_count is 0, none of its chunk rows is left, and none of the vectors of those
\* rows is left in the vector store.
C10_DuplicateUpload ==
    [][ (last'.op = "upload" /\ ~last'.created)
        => LET f == last'.id
               old == {c \in chunks : c.file_id = f}
           IN  /\ files[f].present /\ files[f].md5 = last'.md5
               /\ last'.policy = "use_existing" => UNCHANGED storeVars
               /\ last'.policy = "overwrite" =>
                      /\ files'[f].chunk_count = 0
                      /\ {c \in chunks' : c.file_id = f} = {}
                      /\ VectorIdsOf(old) \cap vectors' = {} ]_vars

\* -------------------------------------------- properties of the async endpoints
\* The response of an async submit endpoint that answered (did not raise).
Answered == last.op \in AsyncOps /\ ~last.raised

\* What C8 asks of the response in `last`, by the submit outcome.
FallbackResponse ==
    Answered =>
        /\ last.submit = "ok" => last.task_id # 0 /\ ~last.sync /\ last.result = NoResult
        /\ (last.submit = "unavailable"
            \/ (last.submit = "timeout" /\ last.op = "add_files_async"))
           => last.task_id = 0 /\ last.sync /\ last.result = ResultOf(Cur, last.kb)
        /\ (last.submit = "timeout" /\ last.op # "add_files_async")
           => last.task_id = 0 /\ ~last.sync /\ last.result = NoResult

C5_InsertIdIsDeletionId ==
    last.op = "vs_insert" => last.stored = {chunk_id_to_vector_id(c) : c \in last.ids}

\* ------------------------------------------------------- properties of chat
\* C6: when get_conversations runs the eviction (the user has more than
\* CHAT_HISTORY_MAX_COUNT conversations), afterwards at most CHAT_HISTORY_MAX_COUNT
\* conversations are stored, and the removed ones are those with the oldest updated_at.
C6_EvictionBoundsHistory ==
    [][ (last'.op = "get_conversations" /\ last'.evicted)
        => /\ Cardinality(conversations') <= CHAT_HISTORY_MAX_COUNT
           /\ conversations' \subseteq conversations
           /\ \A gone \in conversations \ conversations', stay \in conversations' :
                  gone.updated_at <= stay.updated_at ]_vars

\* C7: when the client disconnects after it received token events and the generator
\* stops for it, no done event was written and an assistant message with the tokens
\* produced so far is stored in the conversation.
C7_DisconnectKeepsPartialAnswer ==
    (gen.pc = "abandoned" /\ gen.sent # <<>>)
        => /\ \A i \in 1..Len(gen.sent) : gen.sent[i] = "token"
           /\ \E i \in 1..Len(messages[gen.conv]) :
                  messages[gen.conv][i] = Msg("assistant", gen.full_content)

\* C9: a read of a conversation's detail that is answered returns the conversation's
\* messages as they are stored, whatever was cached before the last mutation.
C9_ReadsObserveMutations ==
    (last.op = "get_conversation" /\ last.status = 200)
        => /\ ConvExists(conversations, last.conv)
           /\ last.messages = messages[last.conv]

\* C11: an add_files call never fails as a whole because of one file: it returns, and
\* every requested file that exists and was not linked before the call is afterwards
\* either ingested (linked, with its chunk rows) or named in the returned skipped list.
C11_FailedFileIsSkippedBatchContinues ==
    [][ last'.op = "add_files" =>
          /\ last'.ok
          /\ \A i \in 1..Len(last'.fids) :
                LET fid == last'.fids[i]
                IN  FileExists(files, fid) /\ kb_files[last'.kb][fid] = 0 =>
                      \/ kb_files'[last'.kb][fid] = 1 /\ ChunksOf(chunks', last'.kb, fid) # {}
                      \/ \E j \in 1..Len(last'.skipped) : last'.skipped[j].file_id = fid
      ]_vars

\* The order of the events of one add_files_stream run as the interface states it.
EventsInOrder(ev) ==
    /\ ev # <<>>
    /\ ev[Len(ev)].type \in {"done", "error"}
    /\ \A i \in 1..(Len(ev) - 1) : ev[i].type \notin {"done", "error"}
    /\ \A i \in 1..Len(ev) :
          /\ ev[i].type = "file_start" =>
                /\ i < Len(ev)
                /\ ev[i + 1].type \in {"file_done", "file_skip"}
                /\ ev[i + 1].file_id = ev[i].file_id
          /\ ev[i].type = "file_done" =>
                /\ i > 1
                /\ ev[i - 1] = Event("file_start", ev[i].file_id)
    /\ ev[Len(ev)].type = "error" => \A i \in 1..Len(ev) : ev[i].type # "file_done"

\* C12: the events of every add_files_stream run are in order: each file_start is
\* followed at once by the file_done or file_skip of the same file, the run ends with
\* exactly one terminal event (done or error) and nothing after it, and no file_done
\* precedes an error event.
C12_StreamEventsInOrder ==
    last.op = "add_files_stream" => EventsInOrder(last.events)

\* The token events among the events written to the client.
TokenPositions(sent) == {i \in 1..Len(sent) : sent[i] = "token"}

\* C13: a streamed chat consumed to its end is either token events followed by
\* exactly one done event (with the conversation's id) and nothing after it but the
\* end-of-stream marker, or it holds an error event and no done event; when done is
\* written, the assistant message made of all the tokens written is the last
\* committed message of the conversation.
C13_StreamedChatEndsWithDone ==
    [][ (last'.op \in {"stream_finish", "stream_open"} /\ gen'.pc = "finished"
            /\ ~gen'.disconnected)
        => \/ /\ Len(gen'.sent) >= 2
              /\ gen'.sent[Len(gen'.sent) - 1] = "done"
              /\ gen'.sent[Len(gen'.sent)] = "[DONE]"
              /\ TokenPositions(gen'.sent) = 1..(Len(gen'.sent) - 2)
              /\ Len(gen'.full_content) = Len(gen'.sent) - 2
              /\ last'.event = [type |-> "done", conversation_id |-> gen'.conv]
              /\ ConvExists(conversations', gen'.conv)
              /\ messages'[gen'.conv] # <<>>
              /\ messages'[gen'.conv][Len(messages'[gen'.conv])]
                    = Msg("assistant", gen'.full_content)
           \/ /\ \E i \in 1..Len(gen'.sent) : gen'.sent[i] = "error"
              /\ \A i \in 1..Len(gen'.sent) : gen'.sent[i] # "done"
      ]_vars

\* A streamed chat that wrote all its tokens and the done event to its client.
C13_Witness ==
    /\ last.op = "stream_finish"
    /\ gen.pc = "finished" /\ ~gen.disconnected
    /\ Len(gen.full_content) = MaxTokens
    /\ Len(gen.sent) = MaxTokens + 2
    /\ gen.sent[Len(gen.sent) - 1] = "done"

\* C14: when add_files or add_files_stream is asked to add a file already linked to
\* the knowledge base, the returned skipped list names the file with the reason
\* "already in KB", and the file's link, chunk rows and chunk_count are unchanged.
C14_LinkedFileIsSkipped ==
    [][ (last'.op \in {"add_files", "add_files_stream"} /\ last'.ok)
        => \A i \in 1..Len(last'.fids) :
             LET fid == last'.fids[i]
                 k == last'.kb
             IN  FileExists(files, fid) /\ kb_files[k][fid] > 0 =>
                   /\ \E j \in 1..Len(last'.skipped) :
                         last'.skipped[j] = Skip(fid, "already in KB")
                   /\ kb_files'[k][fid] = kb_files[k][fid]
                   /\ ChunksOf(chunks', k, fid) = ChunksOf(chunks, k, fid)
                   /\ files'[fid].chunk_count = files[fid].chunk_count
      ]_vars

\* C15: with the reranker enabled, the relevance scores of the selected chunks are
\* non-increasing along the returned list, whatever items the reranker returned.
C15_RerankedScoresNonIncreasing ==
    (last.op = "rag_context" /\ last.use_rerank)
        => \A i \in 1..(Len(last.selected) - 1) :
              last.selected[i].relevance_score >= last.selected[i + 1].relevance_score

\* C16: every chunk the chunker returns is at most chunk_size * max_expand_ratio long,
\* except a chunk made of one single piece (a sub-sentence longer than that).
C16_ChunkLengthBounded ==
    last.op = "chunk_text"
        => \A i \in 1..Len(last.chunks) :
              \/ JoinedLength(last.chunks[i]) <= last.max_chunk_size
              \/ Len(last.chunks[i]) = 1

\* The chunk rows of a knowledge base.
RowsOfKb(rows, k) == {c \in rows : c.kb = k}

\* C17: when add_files / remove_file requests on different files of one knowledge base
\* run at the same time, no counter update is lost: each request's commit changes
\* the knowledge base's chunk_count and file_count by the chunk rows and links it
\* added or removed, as when the requests run one after the other.
C17_NoLostCounterUpdate ==
    [][ (last'.op = "session_commit" /\ ~last'.shared)
        => /\ kb'[last'.kb].chunk_count - kb[last'.kb].chunk_count
                = Cardinality(RowsOfKb(chunks', last'.kb))
                    - Cardinality(RowsOfKb(chunks, last'.kb))
           /\ kb'[last'.kb].file_count - kb[last'.kb].file_count
                = LinkCount(kb_files', last'.kb) - LinkCount(kb_files, last'.kb)
      ]_vars

\* C18: in every reachable state, add_files calls for the same file that run at the
\* same time included, a (knowledge base, file) pair has at most one link row and
\* its chunks are ingested once: no two of its chunk rows have the same chunk_index.
C18_AtMostOneLinkPerFile ==
    \A k \in KbIds, f \in FileIds :
        /\ kb_files[k][f] <= 1
        /\ \A c1, c2 \in ChunksOf(chunks, k, f) : c1.idx = c2.idx => c1 = c2

\* The chunk_index values of the rows are 0, 1, ..., one row each.
DenseFromZero(rows) ==
    /\ {c.idx : c \in rows} = 0..(Cardinality(rows) - 1)
    /\ \A c1, c2 \in rows : c1.idx = c2.idx => c1 = c2

\* C19: when the embedding or the vector insert of a file fails in add_files_stream,
\* the file's work is rolled back and the skip recorded: after the stream's commit
\* the knowledge base has no chunk row and no link of that file, and a file that an
\* add_files / add_files_stream call ingests has chunk_index 0, 1, ... without duplicates.
C19_StreamVectorFailureLeavesNoRows ==
    [][ (last'.op \in {"add_files", "add_files_stream"} /\ last'.ok) =>
          /\ last'.op = "add_files_stream" =>
                \A i \in 1..Len(last'.fids) :
                    (/\ \E j \in 1..Len(last'.skipped) :
                            last'.skipped[j] = Skip(last'.fids[i], "vec_fail")
                     /\ \A j \in 1..Len(last'.fids) : last'.fids[j] = last'.fids[i] => j = i)
                    => /\ ChunksOf(chunks', last'.kb, last'.fids[i]) = {}
                       /\ kb_files'[last'.kb][last'.fids[i]] = 0
          /\ \A f \in last'.linked : DenseFromZero(ChunksOf(chunks', last'.kb, f))
      ]_vars

\* The parts of text from position i on start with the parts of prefix.
StartsAt(text, i, prefix) ==
    /\ i + Len(prefix) - 1 <= Len(text)
    /\ \A j \in 1..Len(prefix) : text[i + j - 1] = prefix[j]

\* C20: in chat and in chat_stream, for a query on one knowledge base and for a query
\* on all knowledge bases, when the retrieval returned a non-empty context with a
\* confidence below RAG_CONFIDENCE_THRESHOLD, the context given to the LLM holds the
\* low-confidence warning in front of the retrieved context.
C20_LowConfidenceContextIsWarned ==
    (/\ last.op = "llm_context"
     /\ last.rag.found
     /\ last.rag.confidence < RAG_CONFIDENCE_THRESHOLD)
    => \E i \in 1..Len(last.context) :
          /\ last.context[i] = LowConfidenceWarning
          /\ StartsAt(last.context, i + 1, last.rag.context)

\* C21: the tool-call loop of chat ends after at most 5 completions, whatever the model
\* and the tools do, and the content it leaves is a non-empty text, stored as the
\* assistant message of the turn.
C21_ToolLoopBoundedAndAnswered ==
    /\ gen.pc = "tool_loop" => gen.round < 5
    /\ gen.pc = "tool_exit" => gen.round <= 5 /\ gen.assistant_content # ""
    /\ last.op = "tool_chat" =>
          /\ last.rounds <= 5
          /\ last.message # ""
          /\ Len(messages[last.conv]) >= 2
          /\ messages[last.conv][Len(messages[last.conv])] = Msg("assistant", <<last.message>>)

\* The model asked for tools in all five rounds and the answer stored is the closing text.
C21_Witness ==
    /\ last.op = "tool_chat"
    /\ last.rounds = 5
    /\ last.message = NoFinalAnswer
    /\ messages[last.conv][Len(messages[last.conv])] = Msg("assistant", <<NoFinalAnswer>>)

\* Chunk a comes before chunk b: higher fused score, or equal score and smaller chunk id.
RanksBefore(a, b) == a.score > b.score \/ (a.score = b.score /\ a.id < b.id)

\* C22: the rerank candidates are the fused chunks in descending RRF score, cut to
\* top_k * 2, and of two chunks with equal score the one with the smaller chunk id
\* comes first, whatever order the vector and the full-text lists gave them.
C22_CandidatesByScoreThenId ==
    last.op = "rrf_candidates" =>
        LET cand == last.candidates
            all == {last.scores[i] : i \in 1..Len(last.scores)}
            in == {cand[i] : i \in 1..Len(cand)}
        IN  /\ Len(cand) = Min(last.top_k * 2, Cardinality(all))
            /\ in \subseteq all
            /\ \A i, j \in 1..Len(cand) : i < j => RanksBefore(cand[i], cand[j])
            /\ \A a \in in, b \in all \ in : RanksBefore(a, b)

Distance(a, b) == IF a >= b THEN a - b ELSE b - a

\* C23: with a window N > 0 the expanded list holds every retrieved chunk, holds no
\* chunk twice, is in (file_id, chunk_index) order, and each of its chunks is in the
\* file of, and at most N positions from, some retrieved chunk.
C23_ExpansionWithinWindow ==
    (last.op = "expanded" /\ last.window > 0) =>
        LET out == last.expanded
            sel == {last.chunks[i] : i \in 1..Len(last.chunks)}
        IN  /\ \A c \in sel : \E i \in 1..Len(out) : out[i] = c
            /\ \A i, j \in 1..Len(out) : out[i].id = out[j].id => i = j
            /\ \A i, j \in 1..Len(out) :
                    i < j => \/ out[i].file_id < out[j].file_id
                             \/ out[i].file_id = out[j].file_id /\ out[i].idx <= out[j].idx
            /\ \A i \in 1..Len(out) :
                    \E c \in sel : /\ c.file_id = out[i].file_id
                                   /\ Distance(c.idx, out[i].idx) <= last.window

SeqRange(q) == {q[i] : i \in 1..Len(q)}

\* C24: when the embedding or the vector search fails for every query, the retrieval
\* on a knowledge base raises nothing and degrades in order: the full-text results
\* when there are any, otherwise the first chunks of the knowledge base by id with
\* confidence 0.5, otherwise the empty context with confidence 0.
C24_VectorFailureDegrades ==
    (last.op = "retrieved" /\ last.call.vector_raised) =>
        LET lexical == IF last.call.use_hybrid THEN SeqRange(last.call.fulltext) ELSE {}
            chosen == {last.selected[i].chunk : i \in 1..Len(last.selected)}
        IN  /\ ~last.raised
            /\ IF lexical # {}
               THEN /\ chosen # {}
                    /\ chosen \subseteq lexical
                    /\ chosen \subseteq SeqRange(last.context)
               ELSE IF last.call.kb_chunks # <<>>
               THEN /\ last.context = last.call.kb_chunks
                    /\ \A i \in 1..(Len(last.context) - 1) : last.context[i] < last.context[i + 1]
                    /\ 2 * last.confidence = ConfidenceOne
               ELSE /\ last.context = <<>>
                    /\ last.confidence = 0

\* The vector search failed and the result is made of full-text results.
C24_Witness ==
    /\ last.op = "retrieved"
    /\ last.call.vector_raised
    /\ last.call.use_hybrid
    /\ Len(last.call.fulltext) = 2
    /\ Len(last.selected) = 2

\* The retrieval scored some chunk (it did not take the fallback).
Scored(c) == (~c.vector_raised /\ c.hits # <<>>) \/ (c.use_hybrid /\ c.fulltext # <<>>)

\* The number of rerank candidates of the retrieval: the chunks some search ranked.
CandidateCount(c) ==
    Cardinality((IF c.vector_raised THEN {} ELSE SeqRange(c.hits))
                \cup (IF c.use_hybrid THEN SeqRange(c.fulltext) ELSE {}))

\* C27: the confidence of a retrieval is the highest reranker score of the selected
\* chunks when the reranker ran; when the knowledge base has reranking disabled it is
\* min(1, highest RRF score of the selected chunks * RRF_K); it is always in [0, 1].
C27_ConfidenceFromRerankOrRrf ==
    (last.op = "retrieved" /\ Scored(last.call)) =>
        /\ last.confidence >= 0
        /\ last.confidence <= ConfidenceOne
        /\ (last.call.use_rerank /\ last.call.api.status = "ok"
                /\ \E i \in 1..Len(last.call.api.results) :
                       last.call.api.results[i].index < CandidateCount(last.call))
             => \E i \in 1..Len(last.selected) :
                    /\ last.confidence = FromTenths(last.selected[i].relevance_score)
                    /\ \A j \in 1..Len(last.selected) :
                          last.selected[j].relevance_score <= last.selected[i].relevance_score
        /\ ~last.call.use_rerank
             => last.confidence = Min(ConfidenceOne, last.max_rrf * 60 * 10)

\* C25: with the limiter enabled and the counter store reachable, under every
\* interleaving of the user's concurrent requests at most the daily limit of upload
\* requests and of chat requests are let through within one daily bucket, and a
\* rejected request is answered before its handler starts: no ingestion or LLM work
\* is done for it.
C25_DailyLimitHolds ==
    [][ /\ \A key \in RateKeys :
              ~limits'.outage[key] => limits'.admitted[key] <= DailyLimit(key[1])
        /\ (last'.op = "rate_limit" /\ last'.status = 429)
              => /\ sessions'[last'.session].pc = "idle"
                 /\ UNCHANGED <<storeVars, conversations, messages>> ]_vars

\* A request is rejected in a bucket that let exactly its limit through, while
\* another admitted request of the user is still in its handler.
C25_Witness ==
    /\ last.op = "rate_limit"
    /\ last.status = 429
    /\ ~limits.outage[<<last.kind, last.day>>]
    /\ limits.admitted[<<last.kind, last.day>>] = DailyLimit(last.kind)
    /\ \E s \in SessionIds : sessions[s].pc = "admitted" /\ sessions[s].kind = last.kind

\* C26: a read of a conversation's messages returns them in the order they were
\* produced (the order of their ids): each user message before the assistant
\* message answering it, the turns in the order their chat calls completed.
C26_ReadsInProductionOrder ==
    [][ last'.op = "get_conversation_messages"
          => last'.messages = messages'[last'.conv] ]_vars

\* C28: every chunk in the context of a chat with knowledge_base_id (the selected
\* chunks, which are also the citations, and their window neighbours) belongs to the
\* knowledge base asked for and that knowledge base is the caller's; a knowledge
\* base of another user yields no content.
C28_ContextWithinOwnedKb ==
    last.op = "scoped"
        => /\ \A i \in 1..Len(last.context) :
                 /\ last.context[i].kb = last.knowledge_base_id
                 /\ KbOwner(last.context[i].kb) = last.user
           /\ \A i \in 1..Len(last.selected) :
                 /\ last.selected[i].kb = last.knowledge_base_id
                 /\ KbOwner(last.selected[i].kb) = last.user
           /\ KbOwner(last.knowledge_base_id) # last.user
                 => last.context = <<>> /\ last.selected = <<>>

\* C29: a detail read never returns a conversation (or a knowledge base) to a user
\* who does not own it: the non-owner is answered 404, whether or not a read of the
\* owner has filled the cache.
C29_DetailOnlyForOwner ==
    (last.op = "get_conversation_as" /\ last.user # ConvOwner(last.conv))
        => last.status = 404

====
